---- MODULE Spec2Model ----
(***************************************************************************)
(* Pipeline build lifecycle of the CDS engine                              *)
(* (engine/api/pipeline/pipeline_build.go).                                *)
(*                                                                         *)
(* The relational store is PostgreSQL at its default isolation level, READ *)
(* COMMITTED: a statement sees the rows committed before it started plus   *)
(* the rows written by its own transaction; SELECT ... FOR UPDATE picks    *)
(* its rows on that snapshot and then waits for the row lock; a row lock   *)
(* is held until the transaction commits or rolls back.                    *)
(***************************************************************************)
EXTENDS Integers, Sequences, FiniteSets, TLC

(***************************************************************************)
(* Bounds of the model.                                                    *)
(***************************************************************************)
\* number of concurrent transactions (request handlers)
MaxTx == 2
\* number of InsertPipelineBuild calls started in one behaviour
MaxCalls == 2
\* lifecycle operations (update, stop, restart) started in one behaviour
MaxOps == 3

Tx == 1..MaxTx

(***************************************************************************)
(* Identifiers of the entities a build refers to.                          *)
(***************************************************************************)
\* the application builds are created for, and another application a
\* parent build may belong to
AppID == 1
OtherAppID == 2
EnvID == 1

BuildPipeline == "build"
DeploymentPipeline == "deployment"

\* the pipelines of the project: p.ID, p.Type
Pipelines == { [ID |-> 1, Type |-> BuildPipeline],
               [ID |-> 2, Type |-> DeploymentPipeline] }

StatusBuilding == "Building"
StatusSuccess == "Success"
StatusFail == "Fail"
StatusStopped == "Stopped"
StatusSkipped == "Skipped"
StatusWaiting == "Waiting"
StatusDisabled == "Disabled"

TerminalStatus == {StatusSuccess, StatusFail, StatusStopped, StatusSkipped, StatusDisabled}

\* values of the nullable column pipeline_build.done: SQL NULL, the zero
\* time.Time{} and a wall-clock time
DoneNull == "null"
DoneZero == "zero"
DoneNow == "now"

(***************************************************************************)
(* Parameters: ordered lists of name/value pairs.                          *)
(***************************************************************************)
Param(n, v) == [Name |-> n, Value |-> v]

AddParameter(array, name, value) == Append(array, Param(name, value))

HasParam(params, name) == \E i \in 1..Len(params) : params[i].Name = name

\* value of the first parameter of that name, "" when there is none
ParameterValue(params, name) ==
    IF HasParam(params, name)
    THEN params[CHOOSE i \in 1..Len(params) :
                  /\ params[i].Name = name
                  /\ \A j \in 1..(i-1) : params[j].Name # name].Value
    ELSE ""

\* value of the last parameter of that name
LastValue(params, name) ==
    params[CHOOSE i \in 1..Len(params) :
             /\ params[i].Name = name
             /\ \A j \in (i+1)..Len(params) : params[j].Name # name].Value

\* indexes of the first occurrence of each name, in increasing order
RECURSIVE FirstOccurrences(_, _)
FirstOccurrences(params, i) ==
    IF i > Len(params) THEN << >>
    ELSE IF \E j \in 1..(i-1) : params[j].Name = params[i].Name
         THEN FirstOccurrences(params, i + 1)
         ELSE <<i>> \o FirstOccurrences(params, i + 1)

\* merge of the pipeline parameters, the application overrides and the
\* build arguments: one entry per name, the later source and the later
\* entry win
ProcessPipelineBuildVariables(pipelineParams, applicationPipelineArgs, buildArgs) ==
    LET all == pipelineParams \o applicationPipelineArgs \o buildArgs
        idx == FirstOccurrences(all, 1)
    IN  [k \in 1..Len(idx) |-> Param(all[idx[k]].Name, LastValue(all, all[idx[k]].Name))]

Digit(d) ==
    CASE d = 0 -> "0" [] d = 1 -> "1" [] d = 2 -> "2" [] d = 3 -> "3"
      [] d = 4 -> "4" [] d = 5 -> "5" [] d = 6 -> "6" [] d = 7 -> "7"
      [] d = 8 -> "8" [] d = 9 -> "9"

\* strconv.FormatInt(n, 10)
RECURSIVE FormatInt(_)
FormatInt(n) ==
    IF n < 0 THEN "-" \o FormatInt(0 - n)
    ELSE IF n < 10 THEN Digit(n)
    ELSE FormatInt(n \div 10) \o Digit(n % 10)

(***************************************************************************)
(* The version-control collaborator, as InsertPipelineBuild uses it.       *)
(***************************************************************************)
Branch(id, default, latest) == [DisplayID |-> id, Default |-> default, LatestCommit |-> latest]

\* defautlBranch after the loop over client.Branches: "master" unless a
\* branch is flagged default, the last flagged one winning
DefaultBranchOf(branches) ==
    IF \E i \in 1..Len(branches) : branches[i].Default
    THEN branches[CHOOSE i \in 1..Len(branches) :
                    /\ branches[i].Default
                    /\ \A j \in (i+1)..Len(branches) : ~branches[j].Default].DisplayID
    ELSE "master"

\* lastGitHash[name] after the loop; "" for a name that is not in the map
LastGitHash(branches, name) ==
    IF \E i \in 1..Len(branches) : branches[i].DisplayID = name
    THEN branches[CHOOSE i \in 1..Len(branches) :
                    /\ branches[i].DisplayID = name
                    /\ \A j \in (i+1)..Len(branches) : branches[j].DisplayID # name].LatestCommit
    ELSE ""

\* client.Commit(repo, hash).Author.Name and .Message
CommitAuthor(hash) == "author-of-" \o hash
CommitMessage(hash) == "message-of-" \o hash

SSHCloneURL == "ssh://git/repo.git"
HTTPCloneURL == "https://git/repo.git"

PipelineName(p) == IF p.ID = 1 THEN "pip-build" ELSE "pip-deploy"
ProjectKey == "PROJ"
ApplicationName == "app"
EnvironmentName == "env"

\* a stage of a pipeline definition: its name and the actions of its jobs;
\* Status and Jobs are what a build fills in
Stage(name, actions) == [Name |-> name, Actions |-> actions, Status |-> "", Jobs |-> << >>]

\* the stages of the two pipelines as first defined
PipelineDefinitions ==
    [id \in {1, 2} |->
        IF id = 1 THEN << Stage("compile", <<"make">>), Stage("package", <<"tar">>) >>
        ELSE << Stage("deploy", <<"push">>) >>]

\* what an edit of the first pipeline may leave: a stage added, a stage
\* removed, the stages reordered, the jobs of a stage changed
EditedStages ==
    { << Stage("compile", <<"make">>), Stage("package", <<"tar">>), Stage("publish", <<"push">>) >>,
      << Stage("compile", <<"make">>) >>,
      << Stage("package", <<"tar">>), Stage("compile", <<"make">>) >>,
      << Stage("compile", <<"make", "test">>), Stage("package", <<"tar">>) >> }

VARIABLE
    pipelines   \* pipelines[id]: the stages of the stored definition of a pipeline

VARIABLES
    router,       \* the variables of package main the router keeps: panicked,
                  \* nbPanic, lastPanic, and the request served last
    cache,        \* the keys of the process-wide cache that hold a value
    application   \* committed rows of table application

\* the router of a process that has started: no panic recovered, no request
\* served.  lastPanic is nil (no element) or the minutes elapsed since the
\* last panic; recent and burst keep, for the panics recovered, how many
\* fell in each of the last minutes and whether more than
\* nbPanicsBeforeFail of them ever fell within 2 minutes.
NoPanic == [panicked |-> FALSE, nbPanic |-> 0, lastPanic |-> << >>,
            recent |-> <<0, 0, 0>>, burst |-> FALSE, served |-> << >>]

\* the application of the project, as stored when the process starts
Applications == {[id |-> AppID, name |-> "app", metadata |-> ""]}

\* cache.DeleteAll(cache.Key(...)): the keys of c without those the key k
\* matches, a "*" in k standing for anything
DeleteAll(c, k) ==
    {x \in c : \E i \in 1..Len(k) : k[i] # "*" /\ k[i] # x[i]}

\* the stages of the pipeline definition, as LoadPipelineStage loads them
PipelineStages(p) == pipelines[p.ID]

\* the value of the last parameter of that name whose value is not empty,
\* "" when there is none (the loop of InsertPipelineBuild over params)
LastNonEmpty(params, name) ==
    IF \E i \in 1..Len(params) : params[i].Name = name /\ params[i].Value # ""
    THEN params[CHOOSE i \in 1..Len(params) :
                  /\ params[i].Name = name /\ params[i].Value # ""
                  /\ \A j \in (i+1)..Len(params) :
                        ~(params[j].Name = name /\ params[j].Value # "")].Value
    ELSE ""

\* trigger.ParentPipelineBuild: nil (ID 0) or a build of some application
NoParent == [ID |-> 0, App |-> 0, Version |-> 0]

(***************************************************************************)
(* InsertPipelineBuild, lines 662-818: everything between the read of the  *)
(* last build number and the insert of the row.  in is the call's input,   *)
(* buildNumber the value GetLastBuildNumber returned.  err is "" or the    *)
(* step that made the function return an error.                            *)
(***************************************************************************)
ClientOf(in) == in.rm /\ ~in.authFails

\* the build number counted down instead of up
NextBuildNumber_Down(buildNumber) == buildNumber - 1

\* line 678: pb.BuildNumber = buildNumber + 1
NextBuildNumber(buildNumber) == buildNumber + 1

\* the version kept only for a parent of the same application and a
\* pipeline that is not a build pipeline
VersionOf_SameApp(in, buildNumber) ==
    IF in.parent.ID # 0 /\ in.parent.App = AppID /\ in.p.Type # BuildPipeline
    THEN in.version
    ELSE NextBuildNumber(buildNumber)

VersionOf(in, buildNumber) ==
    IF \/ in.version <= 0
       \/ in.parent.ID = 0
       \/ (AppID # in.parent.App /\ in.p.Type = BuildPipeline)
    THEN NextBuildNumber(buildNumber)
    ELSE in.version

CanonicalParams(in, buildNumber) ==
    LET p1 == AddParameter(in.params, "cds.pipeline", PipelineName(in.p))
        p2 == AddParameter(p1, "cds.project", ProjectKey)
        p3 == AddParameter(p2, "cds.application", ApplicationName)
        p4 == AddParameter(p3, "cds.environment", EnvironmentName)
        p5 == AddParameter(p4, "cds.buildNumber", FormatInt(NextBuildNumber(buildNumber)))
    IN  AddParameter(p5, "cds.version", FormatInt(VersionOf(in, buildNumber)))

RepoParams(in, params) ==
    IF ClientOf(in)
    THEN AddParameter(AddParameter(params, "git.url", SSHCloneURL), "git.http_url", HTTPCloneURL)
    ELSE params

UserParams(in, params) ==
    IF in.triggeredBy
    THEN AddParameter(AddParameter(AddParameter(params,
            "cds.triggered_by.username", "bob"),
            "cds.triggered_by.fullname", "Bob B"),
            "cds.triggered_by.email", "bob@example.org")
    ELSE params

\* git.branch not added when the default branch is used
GitParams_NoDefaultBranch(in, params) ==
    IF in.branch # ""
    THEN [params |-> AddParameter(AddParameter(params, "git.branch", in.branch), "git.hash", in.hash),
          Branch |-> in.branch, Hash |-> in.hash]
    ELSE LET branches == IF ClientOf(in) /\ ~in.branchesFail THEN in.branches ELSE << >>
             defautlBranch == DefaultBranchOf(branches)
             pBranch == LastNonEmpty(params, "git.branch")
             pHash == LastNonEmpty(params, "git.hash")
             found == pBranch # ""
             hashFound == pHash # ""
             hash0 == IF hashFound THEN pHash ELSE in.hash
         IN  IF ~found
             THEN LET q == params
                  IN  IF LastGitHash(branches, defautlBranch) # ""
                      THEN [params |-> AddParameter(q, "git.hash", LastGitHash(branches, defautlBranch)),
                            Branch |-> defautlBranch,
                            Hash |-> LastGitHash(branches, defautlBranch)]
                      ELSE [params |-> q, Branch |-> defautlBranch, Hash |-> hash0]
             ELSE IF ~hashFound /\ LastGitHash(branches, pBranch) # ""
                  THEN [params |-> AddParameter(params, "git.hash", LastGitHash(branches, pBranch)),
                        Branch |-> pBranch,
                        Hash |-> LastGitHash(branches, pBranch)]
                  ELSE [params |-> params, Branch |-> pBranch, Hash |-> hash0]

\* the latest commit of the default branch used for a branch given as
\* parameter
GitParams_DefaultLatest(in, params) ==
    IF in.branch # ""
    THEN [params |-> AddParameter(AddParameter(params, "git.branch", in.branch), "git.hash", in.hash),
          Branch |-> in.branch, Hash |-> in.hash]
    ELSE LET branches == IF ClientOf(in) /\ ~in.branchesFail THEN in.branches ELSE << >>
             defautlBranch == DefaultBranchOf(branches)
             pBranch == LastNonEmpty(params, "git.branch")
             pHash == LastNonEmpty(params, "git.hash")
             found == pBranch # ""
             hashFound == pHash # ""
             hash0 == IF hashFound THEN pHash ELSE in.hash
         IN  IF ~found
             THEN LET q == AddParameter(params, "git.branch", defautlBranch)
                  IN  IF LastGitHash(branches, defautlBranch) # ""
                      THEN [params |-> AddParameter(q, "git.hash", LastGitHash(branches, defautlBranch)),
                            Branch |-> defautlBranch,
                            Hash |-> LastGitHash(branches, defautlBranch)]
                      ELSE [params |-> q, Branch |-> defautlBranch, Hash |-> hash0]
             ELSE IF ~hashFound /\ LastGitHash(branches, defautlBranch) # ""
                  THEN [params |-> AddParameter(params, "git.hash", LastGitHash(branches, defautlBranch)),
                        Branch |-> pBranch,
                        Hash |-> LastGitHash(branches, defautlBranch)]
                  ELSE [params |-> params, Branch |-> pBranch, Hash |-> hash0]

\* lines 717-771: params, trigger branch and trigger hash
GitParams(in, params) ==
    IF in.branch # ""
    THEN [params |-> AddParameter(AddParameter(params, "git.branch", in.branch), "git.hash", in.hash),
          Branch |-> in.branch, Hash |-> in.hash]
    ELSE LET branches == IF ClientOf(in) /\ ~in.branchesFail THEN in.branches ELSE << >>
             defautlBranch == DefaultBranchOf(branches)
             pBranch == LastNonEmpty(params, "git.branch")
             pHash == LastNonEmpty(params, "git.hash")
             found == pBranch # ""
             hashFound == pHash # ""
             hash0 == IF hashFound THEN pHash ELSE in.hash
         IN  IF ~found
             THEN LET q == AddParameter(params, "git.branch", defautlBranch)
                  IN  IF LastGitHash(branches, defautlBranch) # ""
                      THEN [params |-> AddParameter(q, "git.hash", LastGitHash(branches, defautlBranch)),
                            Branch |-> defautlBranch,
                            Hash |-> LastGitHash(branches, defautlBranch)]
                      ELSE [params |-> q, Branch |-> defautlBranch, Hash |-> hash0]
             ELSE IF ~hashFound /\ LastGitHash(branches, pBranch) # ""
                  THEN [params |-> AddParameter(params, "git.hash", LastGitHash(branches, pBranch)),
                        Branch |-> pBranch,
                        Hash |-> LastGitHash(branches, pBranch)]
                  ELSE [params |-> params, Branch |-> pBranch, Hash |-> hash0]

\* lines 773-783
CommitParams(in, g) ==
    IF ClientOf(in) /\ g.Hash # "" /\ ~in.commitFails
    THEN [params |-> AddParameter(AddParameter(g.params, "git.author", CommitAuthor(g.Hash)),
                                  "git.message", CommitMessage(g.Hash)),
          Branch |-> g.Branch, Hash |-> g.Hash, Author |-> CommitAuthor(g.Hash)]
    ELSE [params |-> g.params, Branch |-> g.Branch, Hash |-> g.Hash, Author |-> ""]

\* lines 803-815: the snapshot of the stages, the first one Waiting
SnapshotStages(p) ==
    [i \in 1..Len(PipelineStages(p)) |->
        IF i = 1 THEN [PipelineStages(p)[i] EXCEPT !.Status = StatusWaiting]
                 ELSE PipelineStages(p)[i]]

\* a failed commit lookup returned as the error of InsertPipelineBuild
ResolveBuild_CommitAborts(in, buildNumber) ==
    LET c == CommitParams(in, GitParams(in, UserParams(in, RepoParams(in, CanonicalParams(in, buildNumber)))))
        err == IF ClientOf(in) /\ in.repoFails THEN "repo"
               ELSE IF ClientOf(in) /\ c.Hash # "" /\ in.commitFails THEN "commit"
               ELSE IF in.dbfail = "process" THEN "process"
               ELSE IF in.dbfail = "stages" THEN "stages"
               ELSE ""
    IN  [err |-> err,
         BuildNumber |-> NextBuildNumber(buildNumber),
         Version |-> VersionOf(in, buildNumber),
         params |-> c.params,
         Branch |-> c.Branch, Hash |-> c.Hash, Author |-> c.Author,
         argsFinal |-> ProcessPipelineBuildVariables(in.pipelineParams, in.appArgs, c.params),
         stages |-> SnapshotStages(in.p)]

ResolveBuild(in, buildNumber) ==
    LET c == CommitParams(in, GitParams(in, UserParams(in, RepoParams(in, CanonicalParams(in, buildNumber)))))
        err == IF ClientOf(in) /\ in.repoFails THEN "repo"
               ELSE IF in.dbfail = "process" THEN "process"
               ELSE IF in.dbfail = "stages" THEN "stages"
               ELSE ""
    IN  [err |-> err,
         BuildNumber |-> NextBuildNumber(buildNumber),
         Version |-> VersionOf(in, buildNumber),
         params |-> c.params,
         Branch |-> c.Branch, Hash |-> c.Hash, Author |-> c.Author,
         argsFinal |-> ProcessPipelineBuildVariables(in.pipelineParams, in.appArgs, c.params),
         stages |-> SnapshotStages(in.p)]

(***************************************************************************)
(* The inputs of a call of InsertPipelineBuild.                            *)
(***************************************************************************)
BranchNames == {"main", "dev"}

NoVCS == [rm |-> FALSE, authFails |-> FALSE, repoFails |-> FALSE,
          branchesFail |-> FALSE, commitFails |-> FALSE, branches |-> << >>]

\* what client.Branches may answer
BranchList2 == << Branch("main", TRUE, "b"), Branch("dev", FALSE, "a") >>

BranchLists ==
    { << >>,
      BranchList2,
      << Branch("main", TRUE, "") >>,
      << Branch("dev", FALSE, "a") >> }

ParentVersion == 5
Parents == { NoParent, [ID |-> 7, App |-> AppID, Version |-> ParentVersion],
             [ID |-> 8, App |-> OtherAppID, Version |-> ParentVersion] }

\* the calls of the concurrent scenario: builds of the two pipelines on two
\* branches, each branch at its own commit, no repository manager
AllocInputs ==
    { [p |-> p, version |-> 0, parent |-> NoParent, branch |-> b,
       hash |-> IF b = "main" THEN "a" ELSE "b",
       triggeredBy |-> FALSE, params |-> << >>, pipelineParams |-> << >>,
       appArgs |-> << >>, dbfail |-> f] @@ NoVCS :
         p \in Pipelines, b \in BranchNames, f \in {"none"} }

\* the calls of the single-build scenario: every combination of trigger,
\* caller parameters and answers of the version-control collaborator
CallerParams ==
    { << >>,
      << Param("git.branch", "dev") >>,
      << Param("git.hash", "a") >>,
      << Param("git.branch", "dev"), Param("git.hash", "a") >>,
      << Param("git.branch", "feature"), Param("target", "z") >>,
      << Param(".git.branch", "main") >> }

VCSAnswers ==
    { <<FALSE, FALSE, FALSE, FALSE, FALSE>>,
      <<TRUE, FALSE, FALSE, FALSE, FALSE>>,
      <<TRUE, TRUE, FALSE, FALSE, FALSE>>,
      <<TRUE, FALSE, TRUE, FALSE, FALSE>>,
      <<TRUE, FALSE, FALSE, TRUE, FALSE>>,
      <<TRUE, FALSE, FALSE, FALSE, TRUE>>,
      <<TRUE, FALSE, FALSE, TRUE, TRUE>> }

\* a build is triggered by a user or by a parent build
ResolveInput(p, v, par, b, h, cp, f, vcs, bl) ==
    [p |-> p, version |-> v, parent |-> par, branch |-> b, hash |-> h,
     triggeredBy |-> (par.ID = 0), params |-> cp,
     pipelineParams |-> << Param("target", "x") >>,
     appArgs |-> << Param("target", "y") >>, dbfail |-> f,
     rm |-> vcs[1], authFails |-> vcs[2], repoFails |-> vcs[3],
     branchesFail |-> vcs[4], commitFails |-> vcs[5], branches |-> bl]

\* every answer of the collaborator with a store that works, and every
\* failure of the store with a collaborator that works
ResolveInputs ==
    { ResolveInput(p, v, par, b, h, cp, "none", vcs, bl) :
         p \in Pipelines, v \in {0, ParentVersion}, par \in Parents,
         b \in {"", "main"}, h \in {"", "b"}, cp \in CallerParams,
         vcs \in VCSAnswers, bl \in BranchLists }
    \cup
    { ResolveInput(p, v, par, b, h, cp, f, vcs, BranchList2) :
         p \in Pipelines, v \in {0, ParentVersion}, par \in Parents,
         b \in {"", "main"}, h \in {"", "b"}, cp \in CallerParams,
         f \in {"getLast", "process", "stages", "insert", "history", "update"},
         vcs \in { <<FALSE, FALSE, FALSE, FALSE, FALSE>>,
                   <<TRUE, FALSE, FALSE, FALSE, FALSE>> } }

\* a first build on the first pipeline, branch main, commit a
FirstInput == CHOOSE in \in AllocInputs : in.p.ID = 1 /\ in.branch = "main" /\ in.hash = "a"

\* the builds of the lifecycle scenario: the first pipeline on branch main
LifeInputs == {FirstInput}

\* the builds of the deletion scenario: the first pipeline, by turns on
\* branch main and on branch dev; n builds were started before
PurgeInputs(n) ==
    {in \in AllocInputs : in.p.ID = 1 /\ in.branch = IF n % 2 = 0 THEN "main" ELSE "dev"}

\* the builds of the commit scenario, after the first build: the pipeline,
\* the branch and the commit of the trigger; a trigger without branch and no
\* repository manager at creation gives a build on branch "master"
CommitInputs ==
    { [p |-> CHOOSE p \in Pipelines : p.ID = c[1],
       version |-> 0, parent |-> NoParent, branch |-> c[2], hash |-> c[3],
       triggeredBy |-> FALSE, params |-> << >>, pipelineParams |-> << >>,
       appArgs |-> << >>, dbfail |-> "none"] @@ NoVCS :
         c \in { <<1, "main", "b">>, <<1, "main", "">>, <<1, "dev", "">>,
                 <<2, "main", "">>, <<1, "", "">> } }

InputsOf(sc, n) == IF sc = "resolve" THEN ResolveInputs
                   ELSE IF sc = "commits" THEN CommitInputs
                   ELSE IF sc \in {"life", "snapshot", "app", "recent"} THEN LifeInputs
                   ELSE IF sc = "purge" THEN PurgeInputs(n) ELSE AllocInputs

(***************************************************************************)
(* State.                                                                  *)
(***************************************************************************)
VARIABLES
    scope,      \* which calls the environment issues: "alloc" or "resolve"
    db,         \* committed rows of pipeline_build
    pending,    \* pending[t]: rows written by the open transaction t
    locks,      \* row locks: pairs <<row id, transaction>>
    nextId,     \* sequence of pipeline_build.id
    calls,      \* number of InsertPipelineBuild calls started
    pc,         \* pc[t]: position of handler t
    inp,        \* inp[t]: input of the call handler t runs
    loc,        \* loc[t]: local variables of the call
    events,     \* events handed to event.PublishPipelineBuild
    commitLog,  \* the committed builds in commit order: the id, and the ids of
                \* the builds committed while the transaction was open
    trail       \* the lifecycle calls that returned no error, in order: the
                \* operation, the build as stored before and after it, the
                \* number of events it published, the previous build it found

vars == <<router, cache, application, pipelines, scope, db, pending, locks, nextId, calls, pc, inp, loc, events, commitLog, trail>>

NoInput == [p |-> [ID |-> 0, Type |-> ""], version |-> 0, parent |-> NoParent,
            branch |-> "", hash |-> "", triggeredBy |-> FALSE, params |-> << >>,
            pipelineParams |-> << >>, appArgs |-> << >>, dbfail |-> "none"] @@ NoVCS

\* no build: the zero value of sdk.PipelineBuild
NoBuild == [id |-> 0, pip |-> 0, app |-> 0, env |-> 0, build_number |-> 0,
            version |-> 0, status |-> "", args |-> << >>, done |-> DoneZero,
            parent |-> 0, branch |-> "", hash |-> "", author |-> "",
            stages |-> << >>, commits |-> << >>,
            jobs |-> {}, logs |-> {}, artifacts |-> {}, tests |-> {}]

NoLocals == [lastBuildNumber |-> 0, waitRow |-> 0, blocked |-> FALSE, holder |-> 0,
             ID |-> 0, BuildNumber |-> 0, Version |-> 0, Status |-> "",
             Branch |-> "", Hash |-> "", Author |-> "",
             params |-> << >>, argsFinal |-> << >>, stages |-> << >>,
             previous |-> 0, err |-> "", during |-> {},
             op |-> "", target |-> 0, pb |-> NoBuild, v |-> "",
             rm |-> FALSE, req |-> << >>, res |-> << >>]

\* a build whose row in pipeline_build was deleted: the record stays in the
\* store for as long as rows of other tables (jobs, logs, artifacts, test
\* results) still refer to the build, and holds those rows
Gone == "gone"

\* the rows of rows that are rows of pipeline_build
Live(rows) == {r \in rows : r.status # Gone}

\* the store as transaction t sees it at the start of a statement
Raw(t) == {r \in db : \A w \in pending[t] : w.id # r.id} \cup pending[t]

\* the rows of pipeline_build transaction t sees at the start of a statement
View(t) == Live(Raw(t))

SameTriple(r, pipID) == r.pip = pipID /\ r.app = AppID /\ r.env = EnvID

LockHolders(id) == {t \in Tx : <<id, t>> \in locks}

\* event.PublishPipelineBuild(db, pb, previous): the event goes out at the
\* call, whatever becomes of the transaction.  n numbers the events, by names
\* the function that published.
PublishPipelineBuild(evs, by, id, status, previous) ==
    evs \cup {[n |-> Cardinality(evs) + 1, by |-> by, pb |-> id,
               status |-> status, previous |-> previous]}

(***************************************************************************)
(* The handler that creates a build: opens a transaction, calls            *)
(* InsertPipelineBuild, commits when it returned a build and rolls back    *)
(* when it returned an error.                                              *)
(***************************************************************************)
Begin(t) ==
    /\ pc[t] = "idle"
    /\ calls < MaxCalls
    /\ \E in \in InputsOf(scope, calls) :
          inp' = [inp EXCEPT ![t] = in]
    /\ calls' = calls + 1
    /\ pc' = [pc EXCEPT ![t] = "getLast"]
    /\ UNCHANGED <<router, cache, application, pipelines, trail, scope, db, pending, locks, nextId, loc, events, commitLog>>

\* the WHERE clause without the pipeline: the last build of any pipeline
LastBuildRow_AnyPipeline(t, pipID) ==
    LET rs == View(t)
    IN  IF rs = {} THEN 0
        ELSE (CHOOSE r \in rs : \A q \in rs : q.build_number <= r.build_number).id

\* the row SELECT ... ORDER BY build_number DESC LIMIT 1 picks on the
\* snapshot of t; 0 when the triple has no row
LastBuildRow(t, pipID) ==
    LET rs == {r \in View(t) : SameTriple(r, pipID)}
    IN  IF rs = {} THEN 0
        ELSE (CHOOSE r \in rs : \A q \in rs : q.build_number <= r.build_number).id

RowByID(rs, id) == CHOOSE r \in rs : r.id = id

\* SELECT ... FOR UPDATE NOWAIT: an error when the row is locked
GetLastBuildNumber_NoWait(t) ==
    /\ pc[t] = "getLast"
    /\ LET id == LastBuildRow(t, inp[t].p.ID)
       IN  IF id = 0
           THEN /\ pc' = [pc EXCEPT ![t] = "resolve"]
                /\ loc' = [loc EXCEPT ![t].lastBuildNumber = 0]
                /\ UNCHANGED locks
           ELSE IF LockHolders(id) \subseteq {t}
           THEN /\ pc' = [pc EXCEPT ![t] = "resolve"]
                /\ loc' = [loc EXCEPT ![t].lastBuildNumber = RowByID(View(t), id).build_number,
                                      ![t].waitRow = id]
                /\ locks' = locks \cup {<<id, t>>}
           ELSE /\ pc' = [pc EXCEPT ![t] = "failed"]
                /\ loc' = [loc EXCEPT ![t].waitRow = id, ![t].blocked = TRUE,
                                      ![t].holder = CHOOSE h \in LockHolders(id) : TRUE,
                                      ![t].err = "getLast"]
                /\ UNCHANGED locks
    /\ UNCHANGED <<router, cache, application, pipelines, trail, scope, db, pending, nextId, calls, inp, events, commitLog>>

\* GetLastBuildNumber, lines 526-533: SELECT ... FOR UPDATE.  The statement
\* returns at once when the triple has no row or the row is not locked by
\* another transaction; otherwise it waits for the lock.
GetLastBuildNumber(t) ==
    /\ pc[t] = "getLast"
    /\ LET id == LastBuildRow(t, inp[t].p.ID)
       IN  IF inp[t].dbfail = "getLast"
           THEN /\ pc' = [pc EXCEPT ![t] = "failed"]
                /\ loc' = [loc EXCEPT ![t].err = "getLast"]
                /\ UNCHANGED locks
           ELSE IF id = 0
           THEN /\ pc' = [pc EXCEPT ![t] = "resolve"]
                /\ loc' = [loc EXCEPT ![t].lastBuildNumber = 0]
                /\ UNCHANGED locks
           ELSE IF LockHolders(id) \subseteq {t}
           THEN /\ pc' = [pc EXCEPT ![t] = "resolve"]
                /\ loc' = [loc EXCEPT ![t].lastBuildNumber = RowByID(View(t), id).build_number,
                                      ![t].waitRow = id]
                /\ locks' = locks \cup {<<id, t>>}
           ELSE /\ pc' = [pc EXCEPT ![t] = "waitLock"]
                /\ loc' = [loc EXCEPT ![t].waitRow = id, ![t].blocked = TRUE,
                                      ![t].holder = CHOOSE h \in LockHolders(id) : TRUE]
                /\ UNCHANGED locks
    /\ UNCHANGED <<router, cache, application, pipelines, trail, scope, db, pending, nextId, calls, inp, events, commitLog>>

\* the waiting SELECT ... FOR UPDATE gets the lock once its holder has
\* committed or rolled back, and returns the row it waited for (no row, and
\* so 0, when the holder deleted it)
GetLastBuildNumberWake(t) ==
    /\ pc[t] = "waitLock"
    /\ LockHolders(loc[t].waitRow) = {}
    /\ IF \E r \in db : r.id = loc[t].waitRow
       THEN /\ loc' = [loc EXCEPT ![t].lastBuildNumber = RowByID(db, loc[t].waitRow).build_number]
            /\ locks' = locks \cup {<<loc[t].waitRow, t>>}
       ELSE /\ loc' = [loc EXCEPT ![t].lastBuildNumber = 0]
            /\ UNCHANGED locks
    /\ pc' = [pc EXCEPT ![t] = "resolve"]
    /\ UNCHANGED <<router, cache, application, pipelines, trail, scope, db, pending, nextId, calls, inp, events, commitLog>>

\* InsertPipelineBuild, lines 678-818
ResolveParameters(t) ==
    /\ pc[t] = "resolve"
    /\ LET r == ResolveBuild(inp[t], loc[t].lastBuildNumber)
       IN  /\ loc' = [loc EXCEPT ![t].BuildNumber = r.BuildNumber,
                                 ![t].Version = r.Version,
                                 ![t].Branch = r.Branch,
                                 ![t].Hash = r.Hash,
                                 ![t].Author = r.Author,
                                 ![t].params = r.params,
                                 ![t].argsFinal = r.argsFinal,
                                 ![t].stages = r.stages,
                                 ![t].err = r.err]
           /\ pc' = [pc EXCEPT ![t] = IF r.err = "" THEN "insert" ELSE "failed"]
    /\ UNCHANGED <<router, cache, application, pipelines, trail, scope, db, pending, locks, nextId, calls, inp, events, commitLog>>

\* the unique index of pipeline_build on (pipeline, application,
\* environment, build_number)
SameKey(r, q) ==
    r.pip = q.pip /\ r.app = q.app /\ r.env = q.env /\ r.build_number = q.build_number

\* the row insertPipelineBuild writes, lines 879-900
NewRow(in, l, id) ==
    [id |-> id, pip |-> in.p.ID, app |-> AppID, env |-> EnvID,
     build_number |-> l.BuildNumber, version |-> l.Version,
     status |-> StatusBuilding, args |-> l.argsFinal,
     done |-> DoneNow, parent |-> in.parent.ID,
     branch |-> l.Branch, hash |-> l.Hash, author |-> l.Author,
     stages |-> l.stages, commits |-> << >>,
     jobs |-> {}, logs |-> {}, artifacts |-> {}, tests |-> {}]

\* the first build as InsertPipelineBuild stores it on the empty store
FirstBuild == NewRow(FirstInput, ResolveBuild(FirstInput, 0), 1)

Init ==
    /\ scope = "alloc"
    /\ db = {}
    /\ pending = [t \in Tx |-> {}]
    /\ locks = {}
    /\ nextId = 1
    /\ calls = 0
    /\ pc = [t \in Tx |-> "idle"]
    /\ inp = [t \in Tx |-> NoInput]
    /\ loc = [t \in Tx |-> NoLocals]
    /\ events = {}
    /\ commitLog = << >>
    /\ trail = << >>
    /\ pipelines = PipelineDefinitions
    /\ router = NoPanic
    /\ cache = {}
    /\ application = Applications

\* a handler that runs alone on the empty store, from Begin to Commit:
\* InsertPipelineBuild of the first build, with no other handler in between
CreateFirstBuild ==
    /\ db = {}
    /\ nextId = 1
    /\ calls = 0
    /\ \A t \in Tx : pc[t] = "idle"
    /\ db' = {FirstBuild}
    /\ nextId' = 2
    /\ events' = PublishPipelineBuild(events, "InsertPipelineBuild", 1, StatusBuilding, 0)
    /\ commitLog' = Append(commitLog, [id |-> 1, during |-> {}])
    /\ UNCHANGED <<router, cache, application, pipelines, trail, scope, pending, locks, calls, pc, inp, loc>>

\* InsertPipelineBuild, lines 820-832: the INSERT.  It waits while another
\* open transaction holds an uncommitted row with the same key, and fails
\* when a committed row has it.
insertPipelineBuild(t) ==
    /\ pc[t] = "insert"
    /\ LET row == NewRow(inp[t], loc[t], nextId)
       IN  IF inp[t].dbfail = "insert"
           THEN /\ pc' = [pc EXCEPT ![t] = "failed"]
                /\ loc' = [loc EXCEPT ![t].err = "insert"]
                /\ UNCHANGED <<pending, nextId>>
           ELSE /\ \A u \in Tx \ {t} : \A w \in pending[u] : ~SameKey(w, row)
                /\ nextId' = nextId + 1
                /\ IF \E r \in db : SameKey(r, row)
                   THEN /\ pc' = [pc EXCEPT ![t] = "failed"]
                        /\ loc' = [loc EXCEPT ![t].err = "unique"]
                        /\ UNCHANGED pending
                   ELSE /\ pending' = [pending EXCEPT ![t] = @ \cup {row}]
                        /\ loc' = [loc EXCEPT ![t].ID = nextId, ![t].Status = StatusBuilding]
                        /\ pc' = [pc EXCEPT ![t] = "history"]
    /\ UNCHANGED <<router, cache, application, pipelines, trail, scope, db, locks, calls, inp, events, commitLog>>

\* the first n rows of rs in the order version DESC, id DESC
RECURSIVE OrderedByVersion(_, _)
OrderedByVersion(rs, n) ==
    IF rs = {} \/ n = 0 THEN << >>
    ELSE LET top == CHOOSE r \in rs : \A q \in rs :
                        \/ q.version < r.version
                        \/ (q.version = r.version /\ q.id <= r.id)
         IN  <<top>> \o OrderedByVersion(rs \ {top}, n - 1)

\* LoadPipelineBuildsByApplicationAndPipeline, lines 274-310, on the rows
\* the calling transaction sees
LoadPipelineBuildsByApplicationAndPipeline(rows, applicationID, pipelineID, environmentID, limit, status, branchName) ==
    OrderedByVersion({r \in rows : /\ r.app = applicationID
                                   /\ r.pip = pipelineID
                                   /\ r.env = environmentID
                                   /\ (status # "" => r.status = status)
                                   /\ (branchName # "" => r.branch = branchName)},
                     limit)

\* "Be sure to get the previous one": 0, or the id of the build with the
\* smaller build number when the history has two builds
PreviousOf(history) ==
    IF Len(history) = 2
    THEN IF history[1].build_number > history[2].build_number
         THEN history[2].id ELSE history[1].id
    ELSE 0

\* the branch InsertPipelineBuild and UpdatePipelineBuildStatusAndStage
\* filter the history on
NotificationBranch(params) == ParameterValue(params, ".git.branch")

\* a failed update of the arguments logged and not returned
LoadPreviousAndPublish_Swallow(t) ==
    /\ pc[t] = "history"
    /\ LET history == IF inp[t].dbfail = "history" THEN << >>
                      ELSE LoadPipelineBuildsByApplicationAndPipeline(View(t), AppID,
                              inp[t].p.ID, EnvID, 2, "", NotificationBranch(loc[t].params))
           previous == PreviousOf(history)
           previousHash == IF previous = 0 THEN ""
                           ELSE ParameterValue(RowByID(View(t), previous).args, "git.hash")
           argsFinal == AddParameter(loc[t].argsFinal, "git.previousHash", previousHash)
           own == RowByID(pending[t], loc[t].ID)
       IN  IF FALSE
           THEN UNCHANGED vars
           ELSE /\ pc' = [pc EXCEPT ![t] = "returned"]
                /\ IF previousHash # "" /\ inp[t].dbfail # "update"
                   THEN /\ loc' = [loc EXCEPT ![t].previous = previous, ![t].argsFinal = argsFinal]
                        /\ pending' = [pending EXCEPT ![t] =
                                          (@ \ {own}) \cup {[own EXCEPT !.args = argsFinal]}]
                   ELSE /\ loc' = [loc EXCEPT ![t].previous = previous]
                        /\ UNCHANGED pending
                /\ events' = PublishPipelineBuild(events, "InsertPipelineBuild", loc[t].ID,
                                                   StatusBuilding, previous)
    /\ UNCHANGED <<router, cache, application, pipelines, trail, scope, db, locks, nextId, calls, inp, commitLog>>

\* the event published before the arguments are updated
LoadPreviousAndPublish_PublishFirst(t) ==
    /\ pc[t] = "history"
    /\ LET history == IF inp[t].dbfail = "history" THEN << >>
                      ELSE LoadPipelineBuildsByApplicationAndPipeline(View(t), AppID,
                              inp[t].p.ID, EnvID, 2, "", NotificationBranch(loc[t].params))
           previous == PreviousOf(history)
           previousHash == IF previous = 0 THEN ""
                           ELSE ParameterValue(RowByID(View(t), previous).args, "git.hash")
           argsFinal == AddParameter(loc[t].argsFinal, "git.previousHash", previousHash)
           own == RowByID(pending[t], loc[t].ID)
       IN  /\ events' = PublishPipelineBuild(events, "InsertPipelineBuild", loc[t].ID,
                                             StatusBuilding, previous)
           /\ IF previousHash # "" /\ inp[t].dbfail = "update"
              THEN /\ pc' = [pc EXCEPT ![t] = "failed"]
                   /\ loc' = [loc EXCEPT ![t].err = "update", ![t].previous = previous,
                                         ![t].argsFinal = argsFinal]
                   /\ UNCHANGED pending
              ELSE /\ pc' = [pc EXCEPT ![t] = "returned"]
                   /\ IF previousHash # ""
                      THEN /\ loc' = [loc EXCEPT ![t].previous = previous, ![t].argsFinal = argsFinal]
                           /\ pending' = [pending EXCEPT ![t] =
                                             (@ \ {own}) \cup {[own EXCEPT !.args = argsFinal]}]
                      ELSE /\ loc' = [loc EXCEPT ![t].previous = previous]
                           /\ UNCHANGED pending
    /\ UNCHANGED <<router, cache, application, pipelines, trail, scope, db, locks, nextId, calls, inp, commitLog>>

\* InsertPipelineBuild, lines 834-875: previous build, git.previousHash,
\* event
LoadPreviousAndPublish(t) ==
    /\ pc[t] = "history"
    /\ LET history == IF inp[t].dbfail = "history" THEN << >>
                      ELSE LoadPipelineBuildsByApplicationAndPipeline(View(t), AppID,
                              inp[t].p.ID, EnvID, 2, "", NotificationBranch(loc[t].params))
           previous == PreviousOf(history)
           previousHash == IF previous = 0 THEN ""
                           ELSE ParameterValue(RowByID(View(t), previous).args, "git.hash")
           argsFinal == AddParameter(loc[t].argsFinal, "git.previousHash", previousHash)
           own == RowByID(pending[t], loc[t].ID)
       IN  IF previousHash # "" /\ inp[t].dbfail = "update"
           THEN /\ pc' = [pc EXCEPT ![t] = "failed"]
                /\ loc' = [loc EXCEPT ![t].err = "update", ![t].previous = previous,
                                      ![t].argsFinal = argsFinal]
                /\ UNCHANGED <<pending, events>>
           ELSE /\ pc' = [pc EXCEPT ![t] = "returned"]
                /\ IF previousHash # ""
                   THEN /\ loc' = [loc EXCEPT ![t].previous = previous, ![t].argsFinal = argsFinal]
                        /\ pending' = [pending EXCEPT ![t] =
                                          (@ \ {own}) \cup {[own EXCEPT !.args = argsFinal]}]
                   ELSE /\ loc' = [loc EXCEPT ![t].previous = previous]
                        /\ UNCHANGED pending
                /\ events' = PublishPipelineBuild(events, "InsertPipelineBuild", loc[t].ID,
                                                   StatusBuilding, previous)
    /\ UNCHANGED <<router, cache, application, pipelines, trail, scope, db, locks, nextId, calls, inp, commitLog>>

\* tx.Commit(): the rows written become visible, the row locks are released.
\* A lifecycle handler whose operation returned no error ("done") commits.
\* The trail keeps the InsertBuildVariable calls that committed: the build,
\* the name, the parameters read and whether the call waited for the lock.
Commit(t) ==
    /\ pc[t] \in {"returned", "done"}
    /\ db' = {r \in db : \A w \in pending[t] : w.id # r.id} \cup pending[t]
    /\ pending' = [pending EXCEPT ![t] = {}]
    /\ locks' = {l \in locks : l[2] # t}
    /\ commitLog' = IF loc[t].ID = 0 THEN commitLog
                    ELSE Append(commitLog, [id |-> loc[t].ID, during |-> loc[t].during])
    /\ pc' = [pc EXCEPT ![t] = "idle"]
    /\ inp' = [inp EXCEPT ![t] = NoInput]
    /\ loc' = [u \in Tx |-> IF u = t THEN NoLocals
                            ELSE IF pc[u] # "idle"
                                 THEN [loc[u] EXCEPT !.during = @ \cup {loc[t].ID}]
                                 ELSE loc[u]]
    /\ trail' = IF loc[t].op # "variable" THEN trail
                ELSE Append(trail, [op |-> "variable", id |-> loc[t].target,
                                    name |-> loc[t].v, read |-> loc[t].params,
                                    waited |-> loc[t].blocked])
    /\ UNCHANGED <<router, cache, application, pipelines, scope, nextId, calls, events>>

\* an attempt of InsertPipelineBuild that returned an error: the error, the
\* pipeline, the id of the row it inserted (0 when it inserted none) and the
\* build number it took, or would have taken had its read of the last build
\* number not failed
FailedAttempt(t) ==
    LET last == LastBuildRow(t, inp[t].p.ID)
        read == IF loc[t].err # "getLast" THEN loc[t].lastBuildNumber
                ELSE IF last = 0 THEN 0 ELSE RowByID(View(t), last).build_number
    IN  [op |-> "insert", err |-> loc[t].err, pip |-> inp[t].p.ID, id |-> loc[t].ID,
         number |-> NextBuildNumber(read)]

\* tx.Rollback(): the rows written are dropped, the row locks are released.
\* In the single-build scenario the trail keeps the attempt that failed.
Rollback(t) ==
    /\ pc[t] \in {"failed", "returned"}
    /\ pending' = [pending EXCEPT ![t] = {}]
    /\ locks' = {l \in locks : l[2] # t}
    /\ pc' = [pc EXCEPT ![t] = "idle"]
    /\ inp' = [inp EXCEPT ![t] = NoInput]
    /\ loc' = [loc EXCEPT ![t] = NoLocals]
    /\ trail' = IF scope = "resolve" /\ pc[t] = "failed"
                THEN Append(trail, FailedAttempt(t)) ELSE trail
    /\ UNCHANGED <<router, cache, application, pipelines, scope, db, nextId, calls, events, commitLog>>

\* the single-build scenario: one call of InsertPipelineBuild, with any
\* input, on a store that is empty or holds the first build
InitResolve ==
    /\ scope = "resolve"
    /\ db = {}
    /\ pending = [t \in Tx |-> {}]
    /\ locks = {}
    /\ nextId = 1
    /\ calls = 0
    /\ pc = [t \in Tx |-> "idle"]
    /\ inp = [t \in Tx |-> NoInput]
    /\ loc = [t \in Tx |-> NoLocals]
    /\ events = {}
    /\ commitLog = << >>
    /\ trail = << >>
    /\ pipelines = PipelineDefinitions
    /\ router = NoPanic
    /\ cache = {}
    /\ application = Applications

BeginResolve == calls = 0 /\ Begin(1)

NextResolve ==
    \/ CreateFirstBuild
    \/ BeginResolve
    \/ GetLastBuildNumber(1)
    \/ ResolveParameters(1)
    \/ insertPipelineBuild(1)
    \/ LoadPreviousAndPublish(1)
    \/ Commit(1)
    \/ Rollback(1)

SpecResolve == InitResolve /\ [][NextResolve]_vars

Next ==
    \/ CreateFirstBuild
    \/ \E t \in Tx :
        \/ Begin(t)
        \/ GetLastBuildNumber(t)
        \/ GetLastBuildNumberWake(t)
        \/ ResolveParameters(t)
        \/ insertPipelineBuild(t)
        \/ LoadPreviousAndPublish(t)
        \/ Commit(t)
        \/ Rollback(t)

Spec == Init /\ [][Next]_vars

(***************************************************************************)
(* The life of a stored build: progress reported by the scheduler, stop    *)
(* and restart.                                                            *)
(***************************************************************************)
\* the stages read from the definition of the pipeline of the build
scanPipelineBuild_FromDefinition(row) ==
    [row EXCEPT !.done = IF @ = DoneNull THEN DoneZero ELSE @,
                !.stages = SnapshotStages([ID |-> row.pip])]

\* scanPipelineBuild, lines 357-420: a NULL done is read as the zero time,
\* the stages are the ones stored in the row
scanPipelineBuild(row) == [row EXCEPT !.done = IF @ = DoneNull THEN DoneZero ELSE @]

\* LoadPipelineBuildByID, lines 312-323, on the rows the transaction sees
LoadPipelineBuildByID(rows, id) == scanPipelineBuild(RowByID(rows, id))

Job(id, status) == [ID |-> id, Status |-> status, Parameters |-> << >>]

\* the ids of the two jobs the scheduler creates for stage i of build id
JobsOfStage(id, i) == <<10 * id + 2 * i - 1, 10 * id + 2 * i>>

\* the jobs of a stage in that status: one job done, the other one in the
\* status that decides the stage
StageJobs(id, i, status) ==
    IF status = StatusWaiting THEN << >>
    ELSE << Job(JobsOfStage(id, i)[1], StatusSuccess),
            Job(JobsOfStage(id, i)[2], status) >>

\* the build while stage k is in status res: the stages before it have
\* succeeded, the stages after it wait
StagesAt(pb, k, res) ==
    [i \in 1..Len(pb.stages) |->
        LET st == IF i < k THEN StatusSuccess
                  ELSE IF i = k THEN res ELSE StatusWaiting
        IN  [pb.stages[i] EXCEPT !.Status = st, !.Jobs = StageJobs(pb.id, i, st)]]

\* what the scheduler reports for a build: a stage failed, or the last stage
\* running or done, with the status it aggregates from the stages, or the
\* build stopped with its stages as they are
Progress(pb) ==
    { [stages |-> StagesAt(pb, k, StatusFail), status |-> StatusFail] :
         k \in 1..Len(pb.stages) }
    \cup { [stages |-> StagesAt(pb, Len(pb.stages), res), status |-> res] :
               res \in {StatusBuilding, StatusSuccess} }
    \cup { [stages |-> pb.stages, status |-> StatusStopped] }

\* what the scheduler reports in a scenario: in the deletion scenario only
\* the end of a build that succeeds, in the locking scenario a build whose
\* last stage runs or has succeeded
Outcomes(pb) ==
    IF scope = "purge" THEN {o \in Progress(pb) : o.status = StatusSuccess}
    ELSE IF scope = "lock"
    THEN {o \in Progress(pb) : o.status \in {StatusBuilding, StatusSuccess}}
    ELSE Progress(pb)

\* the jobs in the stages of a build
AllJobs(stages) ==
    UNION { {stages[i].Jobs[j] : j \in 1..Len(stages[i].Jobs)} : i \in 1..Len(stages) }

\* the rows with the row of build id replaced by the rows of written
Replace(rows, id, written) == {r \in rows : r.id # id} \cup written

\* UpdatePipelineBuildStatusAndStage, lines 423-479, on the rows the
\* transaction sees: the UPDATE of status, stages and done, the previous
\* build, and the event when the status of pb changes
\* an event published whatever the status of the build was
UpdatePipelineBuildStatusAndStage_AlwaysPublish(rows, evs, pb, newStatus) ==
    LET written == {[r EXCEPT !.status = newStatus, !.stages = pb.stages, !.done = pb.done] :
                       r \in {q \in rows : q.id = pb.id}}
        after == Replace(rows, pb.id, written)
        history == LoadPipelineBuildsByApplicationAndPipeline(after, pb.app, pb.pip, pb.env,
                                                              2, "", NotificationBranch(pb.args))
        previous == PreviousOf(history)
    IN  [written |-> written,
         previous |-> previous,
         events |-> PublishPipelineBuild(evs, "UpdatePipelineBuildStatusAndStage",
                                         pb.id, newStatus, previous)]

UpdatePipelineBuildStatusAndStage(rows, evs, pb, newStatus) ==
    LET written == {[r EXCEPT !.status = newStatus, !.stages = pb.stages, !.done = pb.done] :
                       r \in {q \in rows : q.id = pb.id}}
        after == Replace(rows, pb.id, written)
        history == LoadPipelineBuildsByApplicationAndPipeline(after, pb.app, pb.pip, pb.env,
                                                              2, "", NotificationBranch(pb.args))
        previous == PreviousOf(history)
    IN  [written |-> written,
         previous |-> previous,
         events |-> IF pb.status # newStatus
                    THEN PublishPipelineBuild(evs, "UpdatePipelineBuildStatusAndStage",
                                              pb.id, newStatus, previous)
                    ELSE evs]

\* one lifecycle call in the trail
Call(op, pb, before, written, published, previous) ==
    [op |-> op, id |-> pb.id, status |-> pb.status, before |-> before,
     after |-> IF written = {} THEN before ELSE CHOOSE w \in written : TRUE,
     published |-> published, previous |-> previous]

LifeOps == {"update", "stop", "restart"}

\* a handler opens a transaction for a lifecycle operation on a stored
\* build, once the builds of the scenario have been created; stop and
\* restart load the build first
\* (beside the handlers of the applications and of the recent builds, the
\* progress of a build is reported, and two operations fewer are followed)
BeginLife(t) ==
    /\ scope \in {"life", "app", "recent"}
    /\ pc[t] = "idle"
    /\ calls = MaxCalls
    /\ Len(trail) < (IF scope = "life" THEN MaxOps ELSE MaxOps - 2)
    /\ \E op \in IF scope = "life" THEN LifeOps ELSE {"update"}, r \in View(t) :
          /\ loc' = [loc EXCEPT ![t].op = op, ![t].target = r.id,
                                ![t].pb = IF op = "update" THEN NoBuild
                                          ELSE LoadPipelineBuildByID(View(t), r.id)]
          /\ pc' = [pc EXCEPT ![t] = IF op = "update" THEN "lock" ELSE op]
    /\ UNCHANGED <<router, cache, application, pipelines, trail, scope, db, pending, locks, nextId, calls, inp, events, commitLog>>

\* the SELECT without FOR UPDATE NOWAIT: the row is taken whoever holds it
SelectBuildForUpdate_Shared(t) ==
    /\ pc[t] = "lock"
    /\ LET id == loc[t].target
           found == \E r \in View(t) : r.id = id /\ r.status = StatusBuilding
           others == LockHolders(id) \ {t}
       IN  IF found
           THEN /\ locks' = locks \cup {<<id, t>>}
                /\ loc' = [loc EXCEPT ![t].pb = LoadPipelineBuildByID(View(t), id),
                                      ![t].holder = 0]
                /\ pc' = [pc EXCEPT ![t] = "update"]
           ELSE /\ loc' = [loc EXCEPT ![t].err = "norows"]
                /\ pc' = [pc EXCEPT ![t] = "failed"]
                /\ UNCHANGED locks
    /\ UNCHANGED <<router, cache, application, pipelines, trail, scope, db, pending, nextId, calls, inp, events, commitLog>>

\* SelectBuildForUpdate, lines 76-83: SELECT ... WHERE id = $1 AND status =
\* Building FOR UPDATE NOWAIT.  An error when there is no such row or when
\* another transaction holds its lock (holder keeps which one); the scheduler
\* then loads the build.
SelectBuildForUpdate(t) ==
    /\ pc[t] = "lock"
    /\ LET id == loc[t].target
           found == \E r \in View(t) : r.id = id /\ r.status = StatusBuilding
           others == LockHolders(id) \ {t}
       IN  IF found /\ others = {}
           THEN /\ locks' = locks \cup {<<id, t>>}
                /\ loc' = [loc EXCEPT ![t].pb = LoadPipelineBuildByID(View(t), id)]
                /\ pc' = [pc EXCEPT ![t] = "update"]
           ELSE /\ loc' = [loc EXCEPT ![t].err = IF found THEN "locked" ELSE "norows",
                                      ![t].holder = IF found THEN CHOOSE h \in others : TRUE
                                                    ELSE 0]
                /\ pc' = [pc EXCEPT ![t] = "failed"]
                /\ UNCHANGED locks
    /\ UNCHANGED <<router, cache, application, pipelines, trail, scope, db, pending, nextId, calls, inp, events, commitLog>>

\* the scheduler reports the progress of a build it has locked: it sets the
\* stages, the done time of a build that ends, records the jobs, their logs
\* and what the finished jobs produced, then calls
\* UpdatePipelineBuildStatusAndStage
ReportProgress(t) ==
    /\ pc[t] = "update"
    /\ \E o \in Outcomes(loc[t].pb), fails \in BOOLEAN :
        LET pb == [loc[t].pb EXCEPT !.stages = o.stages,
                                    !.done = IF o.status \in TerminalStatus THEN DoneNow ELSE @]
            before == RowByID(View(t), pb.id)
            ran == AllJobs(o.stages)
            produced == IF \E j \in ran : j.Status = StatusSuccess THEN {pb.id} ELSE {}
            rows == Replace(View(t), pb.id,
                            {[before EXCEPT !.jobs = IF o.status = StatusStopped THEN @ ELSE ran,
                                            !.logs = @ \cup {j.ID : j \in ran},
                                            !.artifacts = @ \cup produced,
                                            !.tests = @ \cup produced]})
            u == UpdatePipelineBuildStatusAndStage(rows, events, pb, o.status)
        IN  IF fails
            THEN /\ pc' = [pc EXCEPT ![t] = "failed"]
                 /\ loc' = [loc EXCEPT ![t].err = "update"]
                 /\ UNCHANGED <<cache, pending, events, trail>>
            ELSE /\ pc' = [pc EXCEPT ![t] = "done"]
                 /\ loc' = [loc EXCEPT ![t].pb = [pb EXCEPT !.status = o.status]]
                 /\ pending' = [pending EXCEPT ![t] = Replace(@, pb.id, u.written)]
                 /\ cache' = DeleteAll(cache, <<"application", ProjectKey, "*">>)
                 /\ events' = u.events
                 /\ trail' = Append(trail, Call("update", pb, before, u.written,
                                                Cardinality(u.events) - Cardinality(events),
                                                u.previous))
    /\ UNCHANGED <<router, application, pipelines, scope, db, locks, nextId, calls, inp, commitLog>>

\* StopBuildingPipelineBuildJob: the jobs of the build that have not ended
\* are marked Stopped
StopBuildingPipelineBuildJob(row) ==
    [row EXCEPT !.jobs = {IF j.Status \in TerminalStatus THEN j
                          ELSE [j EXCEPT !.Status = StatusStopped] : j \in @}]

\* the stop event published only when a job was stopped
StopPipelineBuild_Quiet(t) ==
    /\ pc[t] = "stop"
    /\ LockHolders(loc[t].pb.id) \subseteq {t}
    /\ \E fails \in BOOLEAN :
       LET pb == loc[t].pb
           before == RowByID(View(t), pb.id)
           written == {StopBuildingPipelineBuildJob(before)}
           history == LoadPipelineBuildsByApplicationAndPipeline(
                          Replace(View(t), pb.id, written), pb.app, pb.pip, pb.env,
                          2, "", pb.branch)
           previous == PreviousOf(history)
       IN  IF fails
           THEN /\ pc' = [pc EXCEPT ![t] = "failed"]
                /\ loc' = [loc EXCEPT ![t].err = "stop"]
                /\ UNCHANGED <<pending, locks, events, trail>>
           ELSE /\ pc' = [pc EXCEPT ![t] = "done"]
                /\ pending' = [pending EXCEPT ![t] = Replace(@, pb.id, written)]
                /\ locks' = locks \cup {<<pb.id, t>>}
                /\ events' = IF written = {before} THEN events
                              ELSE PublishPipelineBuild(events, "StopPipelineBuild", pb.id,
                                                        pb.status, previous)
                /\ trail' = Append(trail, Call("stop", pb, before, written,
                                               IF written = {before} THEN 0 ELSE 1, previous))
                /\ UNCHANGED loc
    /\ UNCHANGED <<router, cache, application, pipelines, scope, db, nextId, calls, inp, commitLog>>

\* StopPipelineBuild, lines 1310-1333: the jobs are stopped, the previous
\* build is looked up on the branch of the trigger, the event is published
StopPipelineBuild(t) ==
    /\ pc[t] = "stop"
    /\ LockHolders(loc[t].pb.id) \subseteq {t}
    /\ \E fails \in BOOLEAN :
       LET pb == loc[t].pb
           before == RowByID(View(t), pb.id)
           written == {StopBuildingPipelineBuildJob(before)}
           history == LoadPipelineBuildsByApplicationAndPipeline(
                          Replace(View(t), pb.id, written), pb.app, pb.pip, pb.env,
                          2, "", pb.branch)
           previous == PreviousOf(history)
       IN  IF fails
           THEN /\ pc' = [pc EXCEPT ![t] = "failed"]
                /\ loc' = [loc EXCEPT ![t].err = "stop"]
                /\ UNCHANGED <<pending, locks, events, trail>>
           ELSE /\ pc' = [pc EXCEPT ![t] = "done"]
                /\ pending' = [pending EXCEPT ![t] = Replace(@, pb.id, written)]
                /\ locks' = locks \cup {<<pb.id, t>>}
                /\ events' = PublishPipelineBuild(events, "StopPipelineBuild", pb.id,
                                                  pb.status, previous)
                /\ trail' = Append(trail, Call("stop", pb, before, written, 1, previous))
                /\ UNCHANGED loc
    /\ UNCHANGED <<router, cache, application, pipelines, scope, db, nextId, calls, inp, commitLog>>

\* every stage loses its jobs and keeps its status
RestartSuccess_KeepStatus(pb) ==
    [stages |-> [i \in 1..Len(pb.stages) |-> [pb.stages[i] EXCEPT !.Jobs = << >>]],
     logs |-> {j.ID : j \in AllJobs(pb.stages)},
     all |-> TRUE]

\* every stage waits again
RestartSuccess_AllWaiting(pb) ==
    [stages |-> [i \in 1..Len(pb.stages) |->
                    [pb.stages[i] EXCEPT !.Status = StatusWaiting, !.Jobs = << >>]],
     logs |-> {j.ID : j \in AllJobs(pb.stages)},
     all |-> TRUE]

\* only the first stage loses its jobs
RestartSuccess_FirstStageOnly(pb) ==
    [stages |-> [i \in 1..Len(pb.stages) |->
                    IF i = 1 THEN [pb.stages[i] EXCEPT !.Status = StatusWaiting, !.Jobs = << >>]
                    ELSE pb.stages[i]],
     logs |-> {j.ID : j \in AllJobs(pb.stages)},
     all |-> TRUE]

\* RestartPipelineBuild, lines 1336-1352, the build that succeeded: every
\* stage loses its jobs and their logs, the first stage waits
RestartSuccess(pb) ==
    [stages |-> [i \in 1..Len(pb.stages) |->
                    [pb.stages[i] EXCEPT !.Status = IF i = 1 THEN StatusWaiting ELSE @,
                                         !.Jobs = << >>]],
     logs |-> {j.ID : j \in AllJobs(pb.stages)},
     all |-> TRUE]

\* every stage loses its jobs, the failed ones wait again
RestartFailed_AllStages(pb) ==
    [stages |-> [i \in 1..Len(pb.stages) |->
                    [pb.stages[i] EXCEPT !.Status = IF @ = StatusFail THEN StatusWaiting ELSE @,
                                         !.Jobs = << >>]],
     logs |-> {j.ID : j \in {k \in AllJobs(pb.stages) : k.Status = StatusFail}},
     all |-> FALSE]

\* RestartPipelineBuild, lines 1370-1388, any other build: the stages that
\* failed wait again and lose their jobs; the logs of their failed jobs are
\* deleted
RestartFailed(pb) ==
    [stages |-> [i \in 1..Len(pb.stages) |->
                    IF pb.stages[i].Status # StatusFail THEN pb.stages[i]
                    ELSE [pb.stages[i] EXCEPT !.Status = StatusWaiting, !.Jobs = << >>]],
     logs |-> {j.ID : j \in {k \in AllJobs(pb.stages) :
                  /\ k.Status = StatusFail
                  /\ \E i \in 1..Len(pb.stages) :
                        /\ pb.stages[i].Status = StatusFail
                        /\ \E n \in 1..Len(pb.stages[i].Jobs) : pb.stages[i].Jobs[n] = k}},
     all |-> FALSE]

\* every build that has not failed restarted as a build that succeeded
RestartedStages_NotFail(pb) ==
    IF pb.status # StatusFail THEN RestartSuccess(pb) ELSE RestartFailed(pb)

\* RestartPipelineBuild, lines 1336 and 1370: the build that succeeded is
\* restarted as a whole, any other build from its failed stages
RestartedStages(pb) ==
    IF pb.status = StatusSuccess THEN RestartSuccess(pb) ELSE RestartFailed(pb)

\* RestartPipelineBuild, lines 1335-1395
RestartPipelineBuild(t) ==
    /\ pc[t] = "restart"
    /\ LockHolders(loc[t].pb.id) \subseteq {t}
    /\ \E fails \in BOOLEAN :
       LET old == loc[t].pb
           r == RestartedStages(old)
           pb == [old EXCEPT !.stages = r.stages, !.done = DoneZero]
           before == RowByID(View(t), pb.id)
           rows == Replace(View(t), pb.id,
                           {[before EXCEPT !.logs = @ \ r.logs,
                                           !.artifacts = IF r.all THEN {} ELSE @,
                                           !.tests = IF r.all THEN {} ELSE @]})
           u == UpdatePipelineBuildStatusAndStage(rows, events, pb, StatusBuilding)
       IN  IF fails
           THEN /\ pc' = [pc EXCEPT ![t] = "failed"]
                /\ loc' = [loc EXCEPT ![t].err = "restart"]
                /\ UNCHANGED <<cache, pending, locks, events, trail>>
           ELSE /\ pc' = [pc EXCEPT ![t] = "done"]
                /\ loc' = [loc EXCEPT ![t].pb = [pb EXCEPT !.status = StatusBuilding]]
                /\ pending' = [pending EXCEPT ![t] = Replace(@, pb.id, u.written)]
                /\ cache' = DeleteAll(cache, <<"application", ProjectKey, "*">>)
                /\ locks' = locks \cup {<<pb.id, t>>}
                /\ events' = u.events
                /\ trail' = Append(trail, Call("restart", old, before, u.written,
                                               Cardinality(u.events) - Cardinality(events),
                                               u.previous))
    /\ UNCHANGED <<router, application, pipelines, scope, db, nextId, calls, inp, commitLog>>

\* the lifecycle scenario: one handler creates builds and then updates,
\* stops and restarts them
InitLife ==
    /\ scope = "life"
    /\ db = {}
    /\ pending = [t \in Tx |-> {}]
    /\ locks = {}
    /\ nextId = 1
    /\ calls = 0
    /\ pc = [t \in Tx |-> "idle"]
    /\ inp = [t \in Tx |-> NoInput]
    /\ loc = [t \in Tx |-> NoLocals]
    /\ events = {}
    /\ commitLog = << >>
    /\ trail = << >>
    /\ pipelines = PipelineDefinitions
    /\ router = NoPanic
    /\ cache = {}
    /\ application = Applications

NextLife ==
    \/ Begin(1)
    \/ GetLastBuildNumber(1)
    \/ ResolveParameters(1)
    \/ insertPipelineBuild(1)
    \/ LoadPreviousAndPublish(1)
    \/ Commit(1)
    \/ Rollback(1)
    \/ BeginLife(1)
    \/ SelectBuildForUpdate(1)
    \/ ReportProgress(1)
    \/ StopPipelineBuild(1)
    \/ RestartPipelineBuild(1)

SpecLife == InitLife /\ [][NextLife]_vars

(***************************************************************************)
(* Deletion of a build and of the builds of a branch.                      *)
(***************************************************************************)
\* DeleteBuildLogsByPipelineBuildID: the rows of build_log of the build
DeleteBuildLogsByPipelineBuildID(row) == [row EXCEPT !.logs = {}]

\* DeletePipelineBuildJob: the rows of pipeline_build_job of the build
DeletePipelineBuildJob(row) == [row EXCEPT !.jobs = {}]

\* DELETE FROM pipeline_build WHERE id = $1, lines 491-496: the row goes,
\* what other tables hold for the build stays
DeleteRow(row) ==
    [NoBuild EXCEPT !.id = row.id, !.status = Gone, !.jobs = row.jobs, !.logs = row.logs,
                    !.artifacts = row.artifacts, !.tests = row.tests]

DeleteSteps == <<"logs", "jobs", "row">>

\* DeletePipelineBuildByID, lines 482-498, on the record of the build; failAt
\* names the statement the store fails, "none" when it fails none.  steps are
\* the statements issued, err is "" or the statement that failed.
DeletePipelineBuildByID(row, failAt) ==
    IF failAt = "logs" THEN [row |-> row, err |-> "logs", steps |-> <<"logs">>]
    ELSE IF failAt = "jobs"
    THEN [row |-> DeleteBuildLogsByPipelineBuildID(row), err |-> "jobs",
          steps |-> <<"logs", "jobs">>]
    ELSE IF failAt = "row"
    THEN [row |-> DeletePipelineBuildJob(DeleteBuildLogsByPipelineBuildID(row)),
          err |-> "row", steps |-> DeleteSteps]
    ELSE [row |-> DeleteRow(DeletePipelineBuildJob(DeleteBuildLogsByPipelineBuildID(row))),
          err |-> "", steps |-> DeleteSteps]

PurgeOps == {"update", "delete", "purge"}

\* a handler opens a transaction to report progress on a build, to delete a
\* build or to delete the builds of a branch of the application; the
\* scenario reports progress before it deletes
BeginPurge(t) ==
    /\ scope = "purge"
    /\ pc[t] = "idle"
    /\ calls = MaxCalls
    /\ Len(trail) < MaxOps
    /\ \E op \in PurgeOps, r \in View(t) \cup {NoBuild}, b \in BranchNames \cup {""} :
          /\ (op = "purge") = (r = NoBuild)
          /\ (op = "purge") = (b # "")
          /\ op = "update" => \A i \in 1..Len(trail) : trail[i].op = "update"
          /\ loc' = [loc EXCEPT ![t].op = op, ![t].target = r.id, ![t].Branch = b]
          /\ pc' = [pc EXCEPT ![t] = IF op = "update" THEN "lock" ELSE op]
    /\ UNCHANGED <<router, cache, application, pipelines, trail, scope, db, pending, locks, nextId, calls, inp, events, commitLog>>

\* the handler that deletes one build calls DeletePipelineBuildByID; the
\* trail keeps the calls that returned no error
DeleteBuild(t) ==
    /\ pc[t] = "delete"
    /\ LockHolders(loc[t].target) \subseteq {t}
    /\ \E failAt \in {"none", "logs", "jobs", "row"} :
       LET before == RowByID(Raw(t), loc[t].target)
           d == DeletePipelineBuildByID(before, failAt)
       IN  /\ pending' = [pending EXCEPT ![t] = Replace(@, before.id, {d.row})]
           /\ locks' = locks \cup {<<before.id, t>>}
           /\ pc' = [pc EXCEPT ![t] = IF d.err = "" THEN "done" ELSE "failed"]
           /\ loc' = [loc EXCEPT ![t].err = d.err, ![t].pb = before]
           /\ trail' = IF d.err # "" THEN trail
                       ELSE Append(trail, [op |-> "delete", id |-> before.id,
                                           before |-> before, after |-> d.row])
    /\ UNCHANGED <<router, cache, application, pipelines, scope, db, nextId, calls, inp, events, commitLog>>

\* LoadPipelineBuildByApplicationAndBranch, lines 108-129: the builds of the
\* application on the branch, ORDER BY id ASC
RECURSIVE LoadPipelineBuildByApplicationAndBranch(_, _, _)
LoadPipelineBuildByApplicationAndBranch(rows, appID, branch) ==
    LET rs == {r \in rows : r.app = appID /\ r.branch = branch}
    IN  IF rs = {} THEN << >>
        ELSE LET first == CHOOSE r \in rs : \A q \in rs : r.id <= q.id
             IN  <<scanPipelineBuild(first)>>
                    \o LoadPipelineBuildByApplicationAndBranch(rs \ {first}, appID, branch)

\* StopPipelineBuild, lines 1310-1333, on a store: the jobs stopped and the
\* event published
StopPipelineBuildOn(store, evs, pb) ==
    LET written == {StopBuildingPipelineBuildJob(RowByID(store, pb.id))}
        after == Replace(store, pb.id, written)
        history == LoadPipelineBuildsByApplicationAndPipeline(
                       Live(after), pb.app, pb.pip, pb.env, 2, "", pb.branch)
    IN  [store |-> after,
         events |-> PublishPipelineBuild(evs, "StopPipelineBuild", pb.id, pb.status,
                                         PreviousOf(history))]

\* DeleteBranchBuilds, lines 1407-1423: the loop over the builds loaded.  A
\* build that is not Building is passed over; a build that is Building is
\* stopped and then deleted; a step that fails is logged and the loop goes
\* on with the next build.  fid and failAt name the build and the step the
\* store fails (failAt "none": no step fails).
RECURSIVE PurgeLoop(_, _, _, _, _, _)
PurgeLoop(pbs, k, store, evs, fid, failAt) ==
    IF k > Len(pbs) THEN [store |-> store, events |-> evs]
    ELSE LET pb == pbs[k]
             s == StopPipelineBuildOn(store, evs, pb)
             d == DeletePipelineBuildByID(RowByID(s.store, pb.id),
                                          IF fid = pb.id THEN failAt ELSE "none")
         IN  IF pb.status # StatusBuilding
             THEN PurgeLoop(pbs, k + 1, store, evs, fid, failAt)
             ELSE IF fid = pb.id /\ failAt = "stop"
             THEN PurgeLoop(pbs, k + 1, store, evs, fid, failAt)
             ELSE PurgeLoop(pbs, k + 1, Replace(s.store, pb.id, {d.row}), s.events,
                            fid, failAt)

\* DeleteBranchBuilds, lines 1398-1426, called by a handler for the branch it
\* was given.  The call returns an error only when the builds cannot be
\* loaded.
DeleteBranchBuilds(t) ==
    /\ pc[t] = "purge"
    /\ \A r \in View(t) : r.branch = loc[t].Branch => LockHolders(r.id) \subseteq {t}
    /\ \E fid \in {0} \cup {r.id : r \in View(t)},
          failAt \in {"none", "load", "stop", "row"} :
       LET pbs == LoadPipelineBuildByApplicationAndBranch(View(t), AppID, loc[t].Branch)
           res == PurgeLoop(pbs, 1, Raw(t), events, fid, failAt)
           touched == {r \in res.store : r \notin Raw(t)}
       IN  /\ (fid = 0) = (failAt \in {"none", "load"})
           /\ fid # 0 => \E k \in 1..Len(pbs) : pbs[k].id = fid /\ pbs[k].status = StatusBuilding
           /\ IF failAt = "load"
              THEN /\ pc' = [pc EXCEPT ![t] = "failed"]
                   /\ loc' = [loc EXCEPT ![t].err = "load"]
                   /\ UNCHANGED <<pending, locks, events, trail>>
              ELSE /\ pc' = [pc EXCEPT ![t] = "done"]
                   /\ pending' = [pending EXCEPT ![t] =
                                     {w \in @ : \A r \in touched : r.id # w.id} \cup touched]
                   /\ locks' = locks \cup {<<r.id, t>> : r \in touched}
                   /\ events' = res.events
                   /\ trail' = Append(trail, [op |-> "purge", branch |-> loc[t].Branch,
                                              before |-> View(t), after |-> Live(res.store),
                                              left |-> res.store,
                                              failed |-> (fid # 0)])
                   /\ UNCHANGED loc
    /\ UNCHANGED <<router, cache, application, pipelines, scope, db, nextId, calls, inp, commitLog>>

\* the deletion scenario: one handler creates builds on two branches, reports
\* their progress, deletes builds and deletes the builds of a branch
InitPurge ==
    /\ scope = "purge"
    /\ db = {}
    /\ pending = [t \in Tx |-> {}]
    /\ locks = {}
    /\ nextId = 1
    /\ calls = 0
    /\ pc = [t \in Tx |-> "idle"]
    /\ inp = [t \in Tx |-> NoInput]
    /\ loc = [t \in Tx |-> NoLocals]
    /\ events = {}
    /\ commitLog = << >>
    /\ trail = << >>
    /\ pipelines = PipelineDefinitions
    /\ router = NoPanic
    /\ cache = {}
    /\ application = Applications

NextPurge ==
    \/ Begin(1)
    \/ GetLastBuildNumber(1)
    \/ ResolveParameters(1)
    \/ insertPipelineBuild(1)
    \/ LoadPreviousAndPublish(1)
    \/ Commit(1)
    \/ Rollback(1)
    \/ BeginPurge(1)
    \/ SelectBuildForUpdate(1)
    \/ ReportProgress(1)
    \/ DeleteBuild(1)
    \/ DeleteBranchBuilds(1)

SpecPurge == InitPurge /\ [][NextPurge]_vars

(***************************************************************************)
(* Concurrent handlers on one build: the scheduler that locks the build    *)
(* and reports its progress, and InsertBuildVariable.                      *)
(***************************************************************************)
VarNames == {"x", "y"}

\* the handlers that have opened a transaction
Open == {t \in Tx : pc[t] # "idle"}

\* a handler opens a transaction to report progress on a build or to add a
\* build variable; the build asked for may not exist
BeginLock(t) ==
    /\ scope = "lock"
    /\ pc[t] = "idle"
    /\ db # {}
    /\ Len(trail) + Cardinality(Open) < MaxOps
    /\ \E op \in {"update", "variable"}, id \in 1..nextId, v \in VarNames \cup {""} :
          /\ (op = "variable") = (v # "")
          /\ loc' = [loc EXCEPT ![t].op = op, ![t].target = id, ![t].v = v]
          /\ pc' = [pc EXCEPT ![t] = IF op = "update" THEN "lock" ELSE "args"]
    /\ UNCHANGED <<router, cache, application, pipelines, trail, scope, db, pending, locks, nextId, calls, inp, events, commitLog>>

\* the arguments read with no lock taken
SelectArgsForUpdate_NoLock(t) ==
    /\ pc[t] = "args"
    /\ LET id == loc[t].target
       IN  IF \A r \in View(t) : r.id # id
           THEN /\ pc' = [pc EXCEPT ![t] = "failed"]
                /\ loc' = [loc EXCEPT ![t].err = "norows"]
           ELSE /\ pc' = [pc EXCEPT ![t] = "append"]
                /\ loc' = [loc EXCEPT ![t].params = RowByID(View(t), id).args,
                                      ![t].blocked = LockHolders(id) \ {t} # {}]
    /\ UNCHANGED <<router, cache, application, pipelines, trail, scope, db, pending, locks, nextId, calls, inp, events, commitLog>>

\* InsertBuildVariable, lines 539-543: SELECT args ... FOR UPDATE.  The
\* statement returns the arguments and holds the lock of the row, or waits
\* while another transaction holds it.
SelectArgsForUpdate(t) ==
    /\ pc[t] = "args"
    /\ LET id == loc[t].target
       IN  IF \A r \in View(t) : r.id # id
           THEN /\ pc' = [pc EXCEPT ![t] = "failed"]
                /\ loc' = [loc EXCEPT ![t].err = "norows"]
                /\ UNCHANGED locks
           ELSE IF LockHolders(id) \subseteq {t}
           THEN /\ pc' = [pc EXCEPT ![t] = "append"]
                /\ loc' = [loc EXCEPT ![t].params = RowByID(View(t), id).args]
                /\ locks' = locks \cup {<<id, t>>}
           ELSE /\ pc' = [pc EXCEPT ![t] = "waitArgs"]
                /\ loc' = [loc EXCEPT ![t].blocked = TRUE]
                /\ UNCHANGED locks
    /\ UNCHANGED <<router, cache, application, pipelines, trail, scope, db, pending, nextId, calls, inp, events, commitLog>>

\* the waiting SELECT ... FOR UPDATE gets the lock when its holder has
\* committed or rolled back, and returns the arguments of the row as they
\* are then
SelectArgsWake(t) ==
    /\ pc[t] = "waitArgs"
    /\ LockHolders(loc[t].target) = {}
    /\ IF \A r \in View(t) : r.id # loc[t].target
       THEN /\ pc' = [pc EXCEPT ![t] = "failed"]
            /\ loc' = [loc EXCEPT ![t].err = "norows"]
            /\ UNCHANGED locks
       ELSE /\ pc' = [pc EXCEPT ![t] = "append"]
            /\ loc' = [loc EXCEPT ![t].params = RowByID(View(t), loc[t].target).args]
            /\ locks' = locks \cup {<<loc[t].target, t>>}
    /\ UNCHANGED <<router, cache, application, pipelines, trail, scope, db, pending, nextId, calls, inp, events, commitLog>>

\* InsertBuildVariable, lines 545-587: the variable appended to the
\* arguments read, the UPDATE of the row (which waits for the lock of the
\* row), and the variable appended to the parameters of every job of the
\* build
InsertBuildVariable(t) ==
    /\ pc[t] = "append"
    /\ LockHolders(loc[t].target) \subseteq {t}
    /\ \E fails \in BOOLEAN :
       LET v == Param("cds.build." \o loc[t].v, "1")
           params == Append(loc[t].params, v)
           row == RowByID(View(t), loc[t].target)
           written == [row EXCEPT !.args = params,
                                  !.jobs = {[j EXCEPT !.Parameters = Append(@, v)] : j \in @}]
       IN  /\ locks' = locks \cup {<<row.id, t>>}
           /\ IF fails
              THEN /\ pc' = [pc EXCEPT ![t] = "failed"]
                   /\ loc' = [loc EXCEPT ![t].err = "update"]
                   /\ pending' = [pending EXCEPT ![t] =
                                     Replace(@, row.id, {[row EXCEPT !.args = params]})]
              ELSE /\ pc' = [pc EXCEPT ![t] = "done"]
                   /\ pending' = [pending EXCEPT ![t] = Replace(@, row.id, {written})]
                   /\ UNCHANGED loc
    /\ UNCHANGED <<router, cache, application, pipelines, trail, scope, db, nextId, calls, inp, events, commitLog>>

\* the locking scenario: the first build is created, then the handlers
\* report progress and add build variables concurrently
InitLock ==
    /\ scope = "lock"
    /\ db = {}
    /\ pending = [t \in Tx |-> {}]
    /\ locks = {}
    /\ nextId = 1
    /\ calls = 0
    /\ pc = [t \in Tx |-> "idle"]
    /\ inp = [t \in Tx |-> NoInput]
    /\ loc = [t \in Tx |-> NoLocals]
    /\ events = {}
    /\ commitLog = << >>
    /\ trail = << >>
    /\ pipelines = PipelineDefinitions
    /\ router = NoPanic
    /\ cache = {}
    /\ application = Applications

NextLock ==
    \/ CreateFirstBuild
    \/ \E t \in Tx :
        \/ BeginLock(t)
        \/ SelectBuildForUpdate(t)
        \/ ReportProgress(t)
        \/ SelectArgsForUpdate(t)
        \/ SelectArgsWake(t)
        \/ InsertBuildVariable(t)
        \/ Commit(t)
        \/ Rollback(t)

SpecLock == InitLock /\ [][NextLock]_vars

(***************************************************************************)
(* Builds and the definition of their pipeline: a handler creates builds   *)
(* of the first pipeline while the pipeline is edited.                     *)
(***************************************************************************)
\* an edit of the first pipeline is committed
ChangePipeline ==
    /\ scope = "snapshot"
    /\ \E stages \in EditedStages \cup {PipelineDefinitions[1]} :
          /\ stages # pipelines[1]
          /\ pipelines' = [pipelines EXCEPT ![1] = stages]
    /\ UNCHANGED <<router, cache, application, trail, scope, db, pending, locks, nextId, calls, pc, inp, loc, events, commitLog>>

InitSnapshot ==
    /\ scope = "snapshot"
    /\ db = {}
    /\ pending = [t \in Tx |-> {}]
    /\ locks = {}
    /\ nextId = 1
    /\ calls = 0
    /\ pc = [t \in Tx |-> "idle"]
    /\ inp = [t \in Tx |-> NoInput]
    /\ loc = [t \in Tx |-> NoLocals]
    /\ events = {}
    /\ commitLog = << >>
    /\ trail = << >>
    /\ pipelines = PipelineDefinitions
    /\ router = NoPanic
    /\ cache = {}
    /\ application = Applications

NextSnapshot ==
    \/ Begin(1)
    \/ GetLastBuildNumber(1)
    \/ ResolveParameters(1)
    \/ insertPipelineBuild(1)
    \/ LoadPreviousAndPublish(1)
    \/ Commit(1)
    \/ Rollback(1)
    \/ ChangePipeline

SpecSnapshot == InitSnapshot /\ [][NextSnapshot]_vars

(***************************************************************************)
(* The commits of a build: UpdatePipelineBuildCommits.  A handler creates  *)
(* builds; UpdatePipelineBuildCommits is called on the committed builds,   *)
(* statement by statement on the connection, outside any transaction.      *)
(***************************************************************************)
\* the commits of the branches of the repository, oldest first, as the
\* version-control collaborator knows them; no commits for a branch it does
\* not know
RepoLog(branch) ==
    IF branch = "main" THEN <<"a", "b", "c">>
    ELSE IF branch = "dev" THEN <<"a", "b", "d">>
    ELSE << >>

\* client.Commit(repo, hash)
ClientCommit(hash) == [Hash |-> hash, Author |-> CommitAuthor(hash), Message |-> CommitMessage(hash)]

\* the position of a commit in a log, 0 when it is not there
IndexOf(log, hash) ==
    IF \E i \in 1..Len(log) : log[i] = hash
    THEN CHOOSE i \in 1..Len(log) : log[i] = hash
    ELSE 0

\* client.Commits(repo, branch, since, until): the commits of the branch
\* after since, up to and including until; from the first commit when since
\* is empty
ClientCommits(branch, since, until) ==
    LET log == RepoLog(branch)
        from == IndexOf(log, since)
        to == IndexOf(log, until)
    IN  [i \in 1..(IF to > from THEN to - from ELSE 0) |-> ClientCommit(log[from + i])]

\* client.Branch(repo, name): nil (no element) for a branch that is not
\* known, the branch and its latest commit otherwise
ClientBranch(name) ==
    IF RepoLog(name) = << >> THEN << >>
    ELSE << Branch(name, name = "main", RepoLog(name)[Len(RepoLog(name))]) >>

BuildNumberAndHash(r) == [BuildNumber |-> r.build_number, Hash |-> r.hash, Branch |-> r.branch]

\* the previous build looked up on every branch
CurrentAndPreviousPipelineBuildNumberAndHash_AnyBranch(rows, buildNumber, pipelineID, applicationID, environmentID) ==
    LET current_pipeline == {r \in rows : /\ r.build_number = buildNumber
                                          /\ r.pip = pipelineID
                                          /\ r.app = applicationID
                                          /\ r.env = environmentID}
        previous_pipeline == {r \in rows : /\ r.build_number < buildNumber
                                           /\ r.pip = pipelineID
                                           /\ r.app = applicationID
                                           /\ r.env = environmentID}
        on(c) == {q \in previous_pipeline : q.pip = c.pip}
        joined == {j \in current_pipeline \X {<<q>> : q \in previous_pipeline} : j[2][1] \in on(j[1])}
                  \cup {<<c, << >>>> : c \in {c \in current_pipeline : on(c) = {}}}
    IN  IF joined = {}
        THEN [err |-> "ErrNoPipelineBuild", cur |-> << >>, prev |-> << >>]
        ELSE LET first == CHOOSE j \in joined : \A k \in joined :
                              \/ k[2] = << >>
                              \/ j[2] # << >> /\ k[2][1].build_number <= j[2][1].build_number
             IN  [err |-> "",
                  cur |-> << BuildNumberAndHash(first[1]) >>,
                  prev |-> IF first[2] = << >> THEN << >>
                           ELSE << BuildNumberAndHash(first[2][1]) >>]

\* CurrentAndPreviousPipelineBuildNumberAndHash, lines 1241-1307: the row of
\* the build number in the triple, LEFT OUTER JOIN the rows of the triple
\* with a smaller build number ON the same pipeline and the same branch,
\* ORDER BY the build number of the joined row DESC, LIMIT 1.  No row is
\* ErrNoPipelineBuild; a row whose joined columns are NULL is (cur, nil).
CurrentAndPreviousPipelineBuildNumberAndHash(rows, buildNumber, pipelineID, applicationID, environmentID) ==
    LET current_pipeline == {r \in rows : /\ r.build_number = buildNumber
                                          /\ r.pip = pipelineID
                                          /\ r.app = applicationID
                                          /\ r.env = environmentID}
        previous_pipeline == {r \in rows : /\ r.build_number < buildNumber
                                           /\ r.pip = pipelineID
                                           /\ r.app = applicationID
                                           /\ r.env = environmentID}
        on(c) == {q \in previous_pipeline : q.pip = c.pip /\ q.branch = c.branch}
        joined == {j \in current_pipeline \X {<<q>> : q \in previous_pipeline} : j[2][1] \in on(j[1])}
                  \cup {<<c, << >>>> : c \in {c \in current_pipeline : on(c) = {}}}
    IN  IF joined = {}
        THEN [err |-> "ErrNoPipelineBuild", cur |-> << >>, prev |-> << >>]
        ELSE LET first == CHOOSE j \in joined : \A k \in joined :
                              \/ k[2] = << >>
                              \/ j[2] # << >> /\ k[2][1].build_number <= j[2][1].build_number
             IN  [err |-> "",
                  cur |-> << BuildNumberAndHash(first[1]) >>,
                  prev |-> IF first[2] = << >> THEN << >>
                           ELSE << BuildNumberAndHash(first[2][1]) >>]

\* what a call may meet: the application has no repository manager, or has
\* one and no step fails, or the client cannot be authorized, or the call
\* to the collaborator fails, or the UPDATE fails
CommitCalls ==
    { <<FALSE, "none">>, <<TRUE, "none">>, <<TRUE, "client">>, <<TRUE, "vcs">>, <<TRUE, "update">> }

Request(op, branch, since, until) == [op |-> op, branch |-> branch, since |-> since, until |-> until]

NoCommits(err, store) == [err |-> err, store |-> store, res |-> << >>, req |-> << >>]

\* the whole range asked for whatever the previous build
CommitList_NoPrevious(rows, pb, rm, fail) ==
    IF ~rm THEN NoCommits("", FALSE)
    ELSE IF fail = "client" THEN NoCommits("client", FALSE)
    ELSE
    LET q == CurrentAndPreviousPipelineBuildNumberAndHash(rows, pb.build_number, pb.pip, pb.app, pb.env)
    IN  IF q.err # "" THEN NoCommits(q.err, FALSE)
        ELSE
        LET cur == q.cur[1]
            prev == q.prev
        IN  IF prev # << >> /\ cur.Hash = prev[1].Hash
            THEN NoCommits("", TRUE)
            ELSE IF cur.Hash # ""
            THEN IF fail = "vcs" THEN NoCommits("commits", FALSE)
                 ELSE [err |-> "", store |-> TRUE,
                       res |-> ClientCommits(cur.Branch, "", cur.Hash),
                       req |-> << Request("Commits", cur.Branch, "", cur.Hash) >>]
            ELSE IF fail = "vcs" THEN NoCommits("branch", FALSE)
            ELSE LET br == ClientBranch(cur.Branch)
                 IN  IF br = << >>
                     THEN [NoCommits("", TRUE) EXCEPT
                              !.req = << Request("Branch", cur.Branch, "", "") >>]
                     ELSE IF br[1].LatestCommit = "" THEN NoCommits("ErrNoBranch", FALSE)
                     ELSE [err |-> "", store |-> TRUE,
                           res |-> << ClientCommit(br[1].LatestCommit) >>,
                           req |-> << Request("Branch", cur.Branch, "", ""),
                                      Request("Commit", "", "", br[1].LatestCommit) >>]

\* UpdatePipelineBuildCommits, lines 592-652: the list of commits, the
\* requests made to the collaborator, the error returned, and whether the
\* UPDATE of line 654 is reached
CommitList(rows, pb, rm, fail) ==
    IF ~rm THEN NoCommits("", FALSE)
    ELSE IF fail = "client" THEN NoCommits("client", FALSE)
    ELSE
    LET q == CurrentAndPreviousPipelineBuildNumberAndHash(rows, pb.build_number, pb.pip, pb.app, pb.env)
    IN  IF q.err # "" THEN NoCommits(q.err, FALSE)
        ELSE
        LET cur == q.cur[1]
            prev == q.prev
        IN  IF prev # << >> /\ cur.Hash = prev[1].Hash
            THEN NoCommits("", TRUE)
            ELSE IF prev # << >> /\ cur.Hash # "" /\ prev[1].Hash # ""
            THEN IF fail = "vcs" THEN NoCommits("commits", FALSE)
                 ELSE [err |-> "", store |-> TRUE,
                       res |-> ClientCommits(cur.Branch, prev[1].Hash, cur.Hash),
                       req |-> << Request("Commits", cur.Branch, prev[1].Hash, cur.Hash) >>]
            ELSE IF cur.Hash # ""
            THEN IF fail = "vcs" THEN NoCommits("commits", FALSE)
                 ELSE [err |-> "", store |-> TRUE,
                       res |-> ClientCommits(cur.Branch, "", cur.Hash),
                       req |-> << Request("Commits", cur.Branch, "", cur.Hash) >>]
            ELSE IF fail = "vcs" THEN NoCommits("branch", FALSE)
            ELSE LET br == ClientBranch(cur.Branch)
                 IN  IF br = << >>
                     THEN [NoCommits("", TRUE) EXCEPT
                              !.req = << Request("Branch", cur.Branch, "", "") >>]
                     ELSE IF br[1].LatestCommit = "" THEN NoCommits("ErrNoBranch", FALSE)
                     ELSE [err |-> "", store |-> TRUE,
                           res |-> << ClientCommit(br[1].LatestCommit) >>,
                           req |-> << Request("Branch", cur.Branch, "", ""),
                                      Request("Commit", "", "", br[1].LatestCommit) >>]

\* the builds a caller passes: the build created last, or a build that is
\* not in the store
CallerBuilds ==
    {r \in Live(db) : r.id = nextId - 1}
        \cup {[NoBuild EXCEPT !.id = nextId, !.pip = 1, !.app = AppID, !.env = EnvID,
                                   !.build_number = nextId]}

\* UpdatePipelineBuildCommits, lines 591-659, and updatePipelineBuildCommits,
\* lines 909-920.  The UPDATE waits for the lock of the row.  The scenario
\* calls it between two creations of builds; the handler keeps what the last
\* call was given and what it returned.
UpdatePipelineBuildCommits(t) ==
    /\ scope = "commits"
    /\ pc[t] \in {"idle", "done", "failed"}
    /\ \A u \in Tx \ {t} : pc[u] = "idle"
    /\ \E pb \in CallerBuilds, c \in CommitCalls :
          LET l == CommitList(Live(db), pb, c[1], c[2])
              err == IF l.store /\ c[2] = "update" THEN "update" ELSE l.err
              written == l.store /\ err = ""
          IN  /\ l.store => LockHolders(pb.id) = {}
              /\ db' = IF written
                        THEN (db \ {RowByID(db, pb.id)})
                                 \cup {[RowByID(db, pb.id) EXCEPT !.commits = l.res]}
                        ELSE db
              /\ loc' = [loc EXCEPT ![t] = [NoLocals EXCEPT !.op = "commits",
                                                            !.target = pb.id,
                                                            !.rm = c[1],
                                                            !.err = err,
                                                            !.req = l.req,
                                                            !.res = IF err = "" THEN l.res ELSE << >>]]
              /\ pc' = [pc EXCEPT ![t] = IF err = "" THEN "done" ELSE "failed"]
    /\ UNCHANGED <<router, cache, application, pipelines, trail, scope, pending, locks, nextId, calls, inp, events, commitLog>>

InitCommits ==
    /\ scope = "commits"
    /\ db = {}
    /\ pending = [t \in Tx |-> {}]
    /\ locks = {}
    /\ nextId = 1
    /\ calls = 0
    /\ pc = [t \in Tx |-> "idle"]
    /\ inp = [t \in Tx |-> NoInput]
    /\ loc = [t \in Tx |-> NoLocals]
    /\ events = {}
    /\ commitLog = << >>
    /\ trail = << >>
    /\ pipelines = PipelineDefinitions
    /\ router = NoPanic
    /\ cache = {}
    /\ application = Applications

\* the builds after the first one
BeginCommits == db # {} /\ Begin(1)

NextCommits ==
    \/ CreateFirstBuild
    \/ BeginCommits
    \/ GetLastBuildNumber(1)
    \/ ResolveParameters(1)
    \/ insertPipelineBuild(1)
    \/ LoadPreviousAndPublish(1)
    \/ Commit(1)
    \/ Rollback(1)
    \/ UpdatePipelineBuildCommits(2)

SpecCommits == InitCommits /\ [][NextCommits]_vars

(***************************************************************************)
(* The router: the recovery of panics, recoverWrap.  Time is counted in    *)
(* minutes; every request of the scenario panics in its handler.           *)
(***************************************************************************)
nbPanicsBeforeFail == 50

\* a minute passes
Tick ==
    /\ scope = "panic"
    /\ router' = [router EXCEPT
                     !.lastPanic = IF @ = << >> THEN @
                                   ELSE << IF @[1] < 3 THEN @[1] + 1 ELSE 3 >>,
                     !.recent = << 0, @[1], @[2] >>]
    /\ UNCHANGED <<cache, application, pipelines, trail, scope, db, pending, locks, nextId, calls, pc, inp, loc, events, commitLog>>

\* recoverWrap, lines 74-127: the deferred function, when the handler has
\* panicked.  The variables are shared by the goroutines of the requests
\* without synchronisation: of two recoveries that run at the same moment,
\* one may overwrite what the other wrote, and its increment is lost.  No
\* further panic is followed once the process is marked or more than
\* nbPanicsBeforeFail panics fell within 2 minutes.  Lines 106-118: nbPanic
\* starts again from 0 when there was no panic before or the last one is more
\* than 2 minutes old, and is then incremented.
recoverWrap ==
    /\ scope = "panic"
    /\ ~router.panicked /\ ~router.burst
    /\ \E lost \in BOOLEAN :
          /\ lost => (router.recent[1] > 0 /\ router.nbPanic > 0)
          /\ LET n == IF lost THEN router.nbPanic
                      ELSE IF router.lastPanic = << >> THEN 1
                      ELSE IF router.lastPanic[1] > 2 THEN 1
                      ELSE router.nbPanic + 1
                 within == router.recent[1] + 1 + router.recent[2] + router.recent[3]
             IN  router' = [router EXCEPT
                              !.nbPanic = n,
                              !.lastPanic = << 0 >>,
                              !.panicked = @ \/ n > nbPanicsBeforeFail,
                              !.recent = << @[1] + 1, @[2], @[3] >>,
                              !.burst = @ \/ within > nbPanicsBeforeFail]
    /\ UNCHANGED <<cache, application, pipelines, trail, scope, db, pending, locks, nextId, calls, pc, inp, loc, events, commitLog>>

(***************************************************************************)
(* The router: the function Handle registers for a route.                  *)
(***************************************************************************)
\* Handle, line 151: the configuration of a route before its parameters
routerConfig ==
    [auth |-> TRUE, needAdmin |-> FALSE, needHatchery |-> FALSE,
     needWorker |-> FALSE, needUsernameOrAdmin |-> FALSE]

NeedHatchery == [routerConfig EXCEPT !.needHatchery = TRUE]

NeedWorker == [routerConfig EXCEPT !.needWorker = TRUE]

\* checkAuthentication: the context of an authenticated request.  A hatchery
\* and a worker come with a user that is not an administrator.
Ctx(req) ==
    [User |-> [Admin |-> req.identity = "admin"],
     Hatchery |-> req.identity = "hatchery",
     Worker |-> req.identity = "worker"]

\* Handle, lines 246-274
permissionOk(rc, c, req) ==
    IF ~rc.auth THEN TRUE
    ELSE LET ok1 == rc.needHatchery /\ c.Hatchery
             ok2 == IF rc.needWorker THEN req.checkWorkerPermission ELSE ok1
             ok3 == IF rc.needUsernameOrAdmin /\ (c.User.Admin \/ req.self)
                    THEN TRUE ELSE ok2
             ok4 == IF rc.needAdmin /\ c.User.Admin THEN TRUE ELSE ok3
             ok5 == IF ~rc.needAdmin /\ ~c.User.Admin
                    THEN req.checkPermission ELSE ok4
         IN  IF ~rc.needAdmin /\ ~rc.needHatchery /\ ~rc.needWorker
                /\ ~rc.needUsernameOrAdmin
             THEN TRUE ELSE ok5

\* Handle, lines 158-327: the answer to a request, and whether the handler
\* of the route was invoked
Serve(rc, req) ==
    IF req.method = "OPTIONS" THEN [status |-> "OK", invoked |-> FALSE]
    ELSE IF rc.auth /\ req.identity = "none"
    THEN [status |-> "Unauthorized", invoked |-> FALSE]
    ELSE IF ~permissionOk(rc, Ctx(req), req)
    THEN [status |-> "Forbidden", invoked |-> FALSE]
    ELSE IF req.method = "GET" THEN [status |-> "OK", invoked |-> TRUE]
    ELSE [status |-> "NotFound", invoked |-> FALSE]

\* A request arrives on a route.  The routes are registered with
\* NeedAdmin(true), NeedUsernameOrAdmin(true), NeedHatchery(), NeedWorker(),
\* Auth(false) or nothing, and have a handler for GET and none for POST.  A
\* request is told by who sends it ("none" fails the authentication), its
\* method, whether the username of the route is the user's, and what
\* checkPermission and checkWorkerPermission answer for it.
Handle ==
    /\ scope = "route"
    /\ \E rc \in {routerConfig, NeedHatchery, NeedWorker,
                   [routerConfig EXCEPT !.needAdmin = TRUE],
                   [routerConfig EXCEPT !.needUsernameOrAdmin = TRUE],
                   [routerConfig EXCEPT !.auth = FALSE]},
          req \in [identity : {"none", "user", "admin", "worker", "hatchery"},
                   method : {"GET", "POST", "OPTIONS"},
                   self : BOOLEAN,
                   checkPermission : BOOLEAN,
                   checkWorkerPermission : BOOLEAN] :
          router' = [router EXCEPT
                       !.served = << [rc |-> rc, req |-> req,
                                      res |-> Serve(rc, req)] >>]
    /\ UNCHANGED <<cache, application, pipelines, trail, scope, db, pending, locks, nextId, calls, pc, inp, loc, events, commitLog>>

InitRouter ==
    /\ scope \in {"panic", "route"}
    /\ db = {}
    /\ pending = [t \in Tx |-> {}]
    /\ locks = {}
    /\ nextId = 1
    /\ calls = 0
    /\ pc = [t \in Tx |-> "idle"]
    /\ inp = [t \in Tx |-> NoInput]
    /\ loc = [t \in Tx |-> NoLocals]
    /\ events = {}
    /\ commitLog = << >>
    /\ trail = << >>
    /\ pipelines = PipelineDefinitions
    /\ router = NoPanic
    /\ cache = {}
    /\ application = Applications

NextRouter == Tick \/ recoverWrap \/ Handle

SpecRouter == InitRouter /\ [][NextRouter]_vars

(***************************************************************************)
(* The handlers of the applications, the cache of the query results and    *)
(* the recent builds of a user.  Handler 1 creates builds and reports      *)
(* their progress; handler 2 serves the other requests.                    *)
(***************************************************************************)
\* a handler that reads the applications of the project keeps the result
\* in the cache
CacheSet ==
    /\ scope = "app"
    /\ cache' = cache \cup {<<"application", ProjectKey, "applications">>}
    /\ UNCHANGED <<router, application, pipelines, trail, scope, db, pending, locks, nextId, calls, pc, inp, loc, events, commitLog>>

\* addApplicationHandler, lines 1767-1811: application.Insert in a
\* transaction, which fails when the name is taken, and the commit
addApplicationHandler(t) ==
    /\ scope = "app"
    /\ pc[t] = "idle"
    /\ \A a \in application : a.name # "added"
    /\ application' = application \cup {[id |-> 2, name |-> "added", metadata |-> ""]}
    /\ UNCHANGED <<router, cache, pipelines, trail, scope, db, pending, locks, nextId, calls, pc, inp, loc, events, commitLog>>

\* cloneApplicationHandler, lines 1874-1931: the application is loaded by
\* name, its clone inserted and committed, then the keys are deleted
cloneApplicationHandler(t) ==
    /\ scope = "app"
    /\ pc[t] = "idle"
    /\ \E a \in application : a.id = AppID
    /\ \A a \in application : a.name # "clone"
    /\ application' = application \cup {[id |-> 3, name |-> "clone", metadata |-> ""]}
    /\ cache' = DeleteAll(DeleteAll(cache, <<"application", ProjectKey, "*">>),
                          <<"pipeline", ProjectKey, "*">>)
    /\ UNCHANGED <<router, pipelines, trail, scope, db, pending, locks, nextId, calls, pc, inp, loc, events, commitLog>>

\* updateApplicationHandler, lines 2026-2092: the application is loaded by
\* name, its metadata updated and committed, then the keys are deleted
updateApplicationHandler(t) ==
    /\ scope = "app"
    /\ pc[t] = "idle"
    /\ \E a \in application, m \in {"", "m"} :
          /\ a.id = AppID
          /\ application' = (application \ {a}) \cup {[a EXCEPT !.metadata = m]}
    /\ cache' = DeleteAll(DeleteAll(cache, <<"application", ProjectKey, "*">>),
                          <<"pipeline", ProjectKey, "*">>)
    /\ UNCHANGED <<router, pipelines, trail, scope, db, pending, locks, nextId, calls, pc, inp, loc, events, commitLog>>

\* CountBuildingPipelineByApplication, lines 98-105
CountBuildingPipelineByApplication(rows, appID) ==
    Cardinality({r \in rows : r.app = appID /\ r.status = StatusBuilding})

\* deleteApplicationHandler, lines 1813-1845: the keys are deleted, the
\* application is loaded by name and its Building builds are counted, each
\* statement on the committed rows; the handler returns
\* ErrApplicationNotFound or ErrAppBuildingPipelines, and goes on to the
\* deletion when the application has no Building build
deleteApplicationHandler(t) ==
    /\ scope = "app"
    /\ pc[t] = "idle"
    /\ cache' = DeleteAll(DeleteAll(cache, <<"application", ProjectKey, "*">>),
                          <<"pipeline", ProjectKey, "*">>)
    /\ LET found == \E a \in application : a.id = AppID
           nb == CountBuildingPipelineByApplication(Live(db), AppID)
       IN  pc' = [pc EXCEPT ![t] = IF found /\ nb = 0 THEN "delete" ELSE "idle"]
    /\ UNCHANGED <<router, application, pipelines, trail, scope, db, pending, locks, nextId, calls, inp, loc, events, commitLog>>

\* deleteApplicationHandler, lines 1847-1871: the transaction of the
\* deletion.  application.DeleteApplication deletes the row of the
\* application or fails; after the commit the keys are deleted again.
DeleteApplication(t) ==
    /\ pc[t] = "delete"
    /\ pc' = [pc EXCEPT ![t] = "idle"]
    /\ \E ok \in BOOLEAN :
          IF ok
          THEN /\ application' = {a \in application : a.id # AppID}
               /\ cache' = DeleteAll(DeleteAll(cache, <<"application", ProjectKey, "*">>),
                                     <<"pipeline", ProjectKey, "*">>)
          ELSE UNCHANGED <<application, cache>>
    /\ UNCHANGED <<router, pipelines, trail, scope, db, pending, locks, nextId, calls, inp, loc, events, commitLog>>

\* LoadUserRecentPipelineBuild, lines 177-201, on the committed rows; recent
\* holds the builds whose done is less than one minute old.  The rows of
\* pipeline_group and group_user: the first pipeline is of group 1, whose
\* member is user 1, the second of group 2, whose member is user 2.  In
\* the WHERE clause AND binds before OR.  The result is ordered by id.
LoadUserRecentPipelineBuild(rows, userID, recent) ==
    LET pipeline_group == {[pipeline_id |-> 1, group_id |-> 1],
                           [pipeline_id |-> 2, group_id |-> 2]}
        group_user == {[group_id |-> 1, user_id |-> 1],
                       [group_id |-> 2, user_id |-> 2]}
        selected == {r \in rows :
                       \E pg \in pipeline_group, gu \in group_user :
                          /\ pg.pipeline_id = r.pip
                          /\ gu.group_id = pg.group_id
                          /\ \/ r.status = StatusBuilding
                             \/ /\ r.status # StatusBuilding /\ r.id \in recent
                                /\ gu.user_id = userID}
    IN  SelectSeq([i \in 1..(nextId - 1) |-> i], LAMBDA i : \E r \in selected : r.id = i)

\* a handler asks for the recent builds of a user; it keeps the user, the
\* builds of the last minute and the answer
UserRecentBuilds(t) ==
    /\ scope = "recent"
    /\ pc[t] = "idle"
    /\ \E userID \in {1, 2},
          recent \in SUBSET {r.id : r \in {q \in Live(db) : q.done = DoneNow}} :
          loc' = [loc EXCEPT ![t] =
                    [NoLocals EXCEPT !.op = "recent",
                                     !.req = <<userID, recent>>,
                                     !.res = LoadUserRecentPipelineBuild(Live(db), userID, recent)]]
    /\ UNCHANGED <<router, cache, application, pipelines, trail, scope, db, pending, locks, nextId, calls, pc, inp, events, commitLog>>

InitApp ==
    /\ scope \in {"app", "recent"}
    /\ db = {}
    /\ pending = [t \in Tx |-> {}]
    /\ locks = {}
    /\ nextId = 1
    /\ calls = 0
    /\ pc = [t \in Tx |-> "idle"]
    /\ inp = [t \in Tx |-> NoInput]
    /\ loc = [t \in Tx |-> NoLocals]
    /\ events = {}
    /\ commitLog = << >>
    /\ trail = << >>
    /\ pipelines = PipelineDefinitions
    /\ router = NoPanic
    /\ cache = {}
    /\ application = Applications

NextApp ==
    \/ Begin(1)
    \/ GetLastBuildNumber(1)
    \/ ResolveParameters(1)
    \/ insertPipelineBuild(1)
    \/ LoadPreviousAndPublish(1)
    \/ Commit(1)
    \/ Rollback(1)
    \/ BeginLife(1)
    \/ SelectBuildForUpdate(1)
    \/ ReportProgress(1)
    \/ CacheSet
    \/ addApplicationHandler(2)
    \/ cloneApplicationHandler(2)
    \/ updateApplicationHandler(2)
    \/ deleteApplicationHandler(2)
    \/ DeleteApplication(2)
    \/ UserRecentBuilds(2)

SpecApp == InitApp /\ [][NextApp]_vars

(***************************************************************************)
(* Build-number allocation under contention.                               *)
(***************************************************************************)
TripleRows(rows, pipID) == {r \in rows : SameTriple(r, pipID)}

\* C1: the builds committed on one (pipeline, application, environment)
\* triple, by handlers that may run concurrently, have pairwise distinct
\* build numbers, and with the m builds the triple started with they cover
\* 1..m+k: the k new ones are m+1..m+k.
C1_DistinctContiguous ==
    \A p \in Pipelines :
        LET rs == TripleRows(db, p.ID)
        IN  /\ \A r, q \in rs : r.build_number = q.build_number => r.id = q.id
            /\ {r.build_number : r \in rs} = 1..Cardinality(rs)

\* two handlers raced for the number after a committed build: one
\* committed, the other one, which had read the same last number, lost
C1_Witness ==
    \E t \in Tx :
        /\ loc[t].err = "unique"
        /\ loc[t].during # {}
        /\ Cardinality(TripleRows(db, inp[t].p.ID)) >= 2

\* C2 as stated: a transaction that calls GetLastBuildNumber while another
\* open transaction holds the lock of the triple's last build gets an error
\* at once.
C2_FailsImmediately ==
    \A t \in Tx : loc[t].blocked => (pc[t] = "failed" /\ loc[t].err = "getLast")

\* C2 amended: such a transaction does not fail.  It waits as long as the
\* row is locked; once it goes on it holds the lock itself and has read the
\* build number of the row it waited for.  A transaction that found no
\* build for the triple read 0 and took no lock.
C2_WaitsForLock ==
    \A t \in Tx :
        /\ loc[t].blocked =>
              /\ loc[t].err # "getLast"
              /\ pc[t] # "waitLock" =>
                    /\ <<loc[t].waitRow, t>> \in locks
                    /\ loc[t].holder # t
                    /\ \E r \in db : r.id = loc[t].waitRow
                                     /\ r.build_number = loc[t].lastBuildNumber
        /\ (pc[t] \in {"resolve", "insert", "history", "returned"} /\ loc[t].waitRow = 0) =>
              (loc[t].lastBuildNumber = 0 /\ \A l \in locks : l[2] # t)

\* a transaction waits for the lock another open transaction took in
\* GetLastBuildNumber
C2_Witness ==
    \E t \in Tx :
        /\ pc[t] = "waitLock"
        /\ \E u \in Tx \ {t} : <<loc[t].waitRow, u>> \in locks /\ pc[u] # "idle"

\* C3: of two builds committed on the same triple by transactions that
\* overlapped in time, the one committed first has the lower build number.
C3_FirstCommitLower ==
    \A j \in 1..Len(commitLog) :
        \A id \in commitLog[j].during :
            \A r, q \in db :
                (r.id = id /\ q.id = commitLog[j].id /\ r.pip = q.pip)
                    => r.build_number < q.build_number

\* two transactions on the same triple overlapped and both committed
C3_Witness ==
    \E j \in 1..Len(commitLog) :
        \E id \in commitLog[j].during :
            \E r, q \in db : r.id = id /\ q.id = commitLog[j].id /\ r.pip = q.pip

(***************************************************************************)
(* The done timestamp.                                                     *)
(***************************************************************************)
AllRows == db \cup UNION {pending[t] : t \in Tx}

\* C4: every stored build has a done timestamp exactly when its status is
\* terminal; a build just inserted as Building has none.
C4_DoneIffTerminal ==
    \A r \in AllRows : (r.done = DoneNow) <=> (r.status \in TerminalStatus)

(***************************************************************************)
(* git.previousHash.                                                       *)
(***************************************************************************)
\* the builds before row r on its triple and branch, as transaction t sees
\* them
EarlierOnBranch(t, r) ==
    {q \in View(t) : /\ q.pip = r.pip /\ q.app = r.app /\ q.env = r.env
                     /\ q.branch = r.branch
                     /\ q.build_number < r.build_number}

\* C9: the parameters of the build InsertPipelineBuild returns hold
\* git.previousHash = h exactly when the build with the greatest build
\* number below it on its triple and branch exists and has a non-empty
\* git.hash h.
C9_PreviousHashFromBranch ==
    \A t \in Tx :
        pc[t] = "returned" =>
            LET own == RowByID(pending[t], loc[t].ID)
                earlier == EarlierOnBranch(t, own)
                prev == CHOOSE q \in earlier : \A o \in earlier : o.build_number <= q.build_number
            IN  IF earlier # {} /\ ParameterValue(prev.args, "git.hash") # ""
                THEN /\ HasParam(own.args, "git.previousHash")
                     /\ ParameterValue(own.args, "git.previousHash") = ParameterValue(prev.args, "git.hash")
                ELSE ~HasParam(own.args, "git.previousHash")

(***************************************************************************)
(* The build InsertPipelineBuild inserts, against the input of the call.   *)
(***************************************************************************)
\* the INSERT of the call of t has been executed
Inserted(t) == pc[t] \in {"history", "returned"} \/ (pc[t] = "failed" /\ loc[t].err = "update")

Own(t) == RowByID(pending[t], loc[t].ID)

\* what client.Branches answered to the call
BranchesSeen(in) == IF ClientOf(in) /\ ~in.branchesFail THEN in.branches ELSE << >>

\* C5 as stated: the version is the parent's when there is a parent in the
\* same application and the pipeline is not a build pipeline, and the build
\* number in every other case.
C5_VersionFromSameAppParent ==
    \A t \in Tx :
        Inserted(t) =>
            Own(t).version =
                IF /\ inp[t].parent.ID # 0
                   /\ inp[t].parent.App = AppID
                   /\ inp[t].p.Type # BuildPipeline
                THEN inp[t].parent.Version
                ELSE Own(t).build_number

\* C5 amended: the version is the one the caller passed when it is
\* positive, there is a parent, and the parent is in the same application
\* or the pipeline is not a build pipeline; it is the build number when the
\* passed version is not positive, there is no parent, or the parent is in
\* another application and the pipeline is a build pipeline.
C5_VersionRule ==
    \A t \in Tx :
        Inserted(t) =>
            Own(t).version =
                IF /\ inp[t].version > 0
                   /\ inp[t].parent.ID # 0
                   /\ (inp[t].parent.App = AppID \/ inp[t].p.Type # BuildPipeline)
                THEN inp[t].version
                ELSE Own(t).build_number

\* a child of a build of another application, on a deployment pipeline,
\* keeps the version it was given
C5_Witness ==
    \E t \in Tx :
        /\ Inserted(t)
        /\ inp[t].parent.App = OtherAppID
        /\ inp[t].p.Type = DeploymentPipeline
        /\ Own(t).version = ParentVersion
        /\ Own(t).version # Own(t).build_number

CanonicalKeys == {"cds.pipeline", "cds.project", "cds.application", "cds.environment",
                  "cds.buildNumber", "cds.version", "git.branch", "git.hash"}

NoHashSupplied(in) == in.hash = "" /\ LastNonEmpty(in.params, "git.hash") = ""

UpdateFailed(t) ==
    /\ pc[t] \in {"returned", "failed"}
    /\ inp[t].dbfail = "update"
    /\ loc[t].previous # 0
    /\ ParameterValue(RowByID(View(t), loc[t].previous).args, "git.hash") # ""

\* C10 as stated: InsertPipelineBuild returns the build without error when
\* the update of the arguments fails, and the row is kept.
C10_UpdateFailureNotSurfaced ==
    \A t \in Tx :
        UpdateFailed(t) => (pc[t] = "returned" /\ loc[t].err = "" /\ Own(t).id = loc[t].ID)

\* C10 amended: InsertPipelineBuild returns the error and no build; no
\* event is published; the row inserted earlier, without git.previousHash,
\* stays in the open transaction of the caller.
C10_UpdateFailureReturned ==
    \A t \in Tx :
        UpdateFailed(t) =>
            /\ pc[t] = "failed"
            /\ loc[t].err = "update"
            /\ \E r \in pending[t] : r.id = loc[t].ID /\ ~HasParam(r.args, "git.previousHash")
            /\ \A e \in events : e.pb # loc[t].ID

\* the update failed for a build whose previous build has a hash
C10_Witness ==
    \E t \in Tx : UpdateFailed(t) /\ loc[t].err = "update" /\ loc[t].ID = 2

(***************************************************************************)
(* Failed creation, events and transactions.                               *)
(***************************************************************************)
\* the number the next build of the pipeline gets on the committed rows
NextNumberOn(rows, pipID) ==
    LET rs == TripleRows(rows, pipID)
    IN  NextBuildNumber(IF rs = {} THEN 0
                        ELSE (CHOOSE r \in rs : \A q \in rs : q.build_number <= r.build_number).build_number)

\* C11: when InsertPipelineBuild has returned an error, at whatever step, and
\* its transaction has been rolled back, the store holds no row of the
\* attempt, the next build of the triple gets the build number the attempt
\* had taken, and no event was published for the attempt.
C11_FailedAttemptLeavesNoTrace ==
    \A i \in 1..Len(trail) :
        trail[i].op = "insert" =>
            /\ \A r \in AllRows : r.id # trail[i].id
            /\ NextNumberOn(db, trail[i].pip) = trail[i].number
            /\ \A e \in events : e.pb # trail[i].id /\ e.pb \in {r.id : r \in db}

\* an attempt that failed after it had inserted its row was rolled back
C11_Witness ==
    \E i \in 1..Len(trail) :
        /\ trail[i].op = "insert" /\ trail[i].err = "update"
        /\ trail[i].id # 0 /\ trail[i].number = 2
        /\ nextId > trail[i].id

\* the last lifecycle call is the one of the transaction t has open, and it
\* published an event: the event with the highest number
OpenCallPublished(t) ==
    /\ pc[t] = "done"
    /\ trail # << >>
    /\ trail[Len(trail)].id = loc[t].pb.id
    /\ trail[Len(trail)].published > 0

\* C12: an event for the creation of a build or for a status transition is
\* published only once the transaction that wrote it has committed: the build
\* of every creation event is a committed row, and the latest event is never
\* the one of a lifecycle call whose transaction is still open.
C12_PublishedAfterCommit ==
    \A e \in events :
        /\ e.by = "InsertPipelineBuild" => \E r \in db : r.id = e.pb
        /\ e.by # "InsertPipelineBuild" /\ e.n = Cardinality(events) =>
               \A t \in Tx : ~OpenCallPublished(t)

\* C13: the previous build attached to an event for build B has B's
\* application, pipeline, environment and branch, a build number below B's,
\* and the greatest such build number.
C13_PreviousIsLatestEarlierOnBranch ==
    \A e \in events : \A b, p \in AllRows :
        (e.previous # 0 /\ b.id = e.pb /\ p.id = e.previous) =>
            /\ p.app = b.app /\ p.pip = b.pip /\ p.env = b.env
            /\ p.branch = b.branch
            /\ p.build_number < b.build_number
            /\ \A q \in AllRows :
                  (/\ q.app = b.app /\ q.pip = b.pip /\ q.env = b.env
                   /\ q.branch = b.branch
                   /\ q.build_number < b.build_number) => q.build_number <= p.build_number

(***************************************************************************)
(* Stop and restart.                                                       *)
(***************************************************************************)
Calls(op) == {i \in 1..Len(trail) : trail[i].op = op}

\* the done column holds no end time: NULL, or the zero time of Go
Cleared(done) == done \in {DoneNull, DoneZero}

\* j is the next call on the build of call i
NextOnBuild(i, j) ==
    /\ i < j
    /\ trail[j].id = trail[i].id
    /\ \A k \in (i+1)..(j-1) : trail[k].id # trail[i].id

\* what a stop must leave alone in the stored build
Stored(r) == <<r.status, r.done, r.stages, r.jobs>>

C16_RestartSuccess ==
    \A i \in Calls("restart") :
        trail[i].status = StatusSuccess =>
            LET b == trail[i].before
                a == trail[i].after
            IN  /\ \A n \in 1..Len(a.stages) : a.stages[n].Jobs = << >>
                /\ Len(a.stages) = Len(b.stages)
                /\ a.stages[1].Status = StatusWaiting
                /\ a.logs \cap {k.ID : k \in AllJobs(b.stages)} = {}
                /\ a.artifacts = {}
                /\ a.tests = {}
                /\ Cleared(a.done)
                /\ a.status = StatusBuilding

\* a build that succeeded, with the jobs of two stages, their logs, an
\* artifact and a test result, was restarted and the restart committed
C16_Witness ==
    /\ pc[1] = "idle"
    /\ \E i \in Calls("restart") :
          /\ trail[i].status = StatusSuccess
          /\ Cardinality(AllJobs(trail[i].before.stages)) = 4
          /\ Cardinality(trail[i].before.logs) = 4
          /\ trail[i].before.artifacts # {} /\ trail[i].before.tests # {}
          /\ ~Cleared(trail[i].before.done)
          /\ \E r \in db : r.id = trail[i].id /\ r.status = StatusBuilding /\ r.logs = {}

\* C17: after RestartPipelineBuild returned no error on a build whose status
\* is Fail, every stage that had failed waits and has no job, every other
\* stage has the status and the jobs it had, done is cleared and the stored
\* status is Building.
C17_RestartFail ==
    \A i \in Calls("restart") :
        trail[i].status = StatusFail =>
            LET b == trail[i].before
                a == trail[i].after
            IN  /\ Len(a.stages) = Len(b.stages)
                /\ \A n \in 1..Len(b.stages) :
                      IF b.stages[n].Status = StatusFail
                      THEN a.stages[n].Status = StatusWaiting /\ a.stages[n].Jobs = << >>
                      ELSE a.stages[n] = b.stages[n]
                /\ Cleared(a.done)
                /\ a.status = StatusBuilding

\* a failed build, first stage done and second stage failed, was restarted
\* and the restart committed
C17_Witness ==
    /\ pc[1] = "idle"
    /\ \E i \in Calls("restart") :
          /\ trail[i].status = StatusFail
          /\ trail[i].before.stages[1].Status = StatusSuccess
          /\ trail[i].before.stages[2].Status = StatusFail
          /\ trail[i].before.stages[1].Jobs # << >>
          /\ ~Cleared(trail[i].before.done)
          /\ \E r \in db : r.id = trail[i].id /\ r.stages = trail[i].after.stages

\* C18: when RestartPipelineBuild resets a failed stage of a failed build, no
\* log remains for any job of that stage, whatever the status of the job.
C18_LogsOfResetStageDeleted ==
    \A i \in Calls("restart") :
        trail[i].status = StatusFail =>
            \A n \in 1..Len(trail[i].before.stages) :
                trail[i].before.stages[n].Status = StatusFail =>
                    \A k \in 1..Len(trail[i].before.stages[n].Jobs) :
                        trail[i].before.stages[n].Jobs[k].ID \notin trail[i].after.logs

\* C19: a build that has ended (Success or Fail) is restarted, reloaded as
\* B', restarted again and reloaded as B'': B'' has the stages of B' (names,
\* order, statuses, jobs), and its first stage waits exactly if the one of
\* B' does.
C19_RestartTwice ==
    \A i, j \in Calls("restart") :
        (NextOnBuild(i, j) /\ trail[i].status \in {StatusSuccess, StatusFail}) =>
            /\ trail[j].before = trail[i].after
            /\ trail[j].after.stages = trail[j].before.stages
            /\ (trail[j].after.stages[1].Status = StatusWaiting)
                  = (trail[j].before.stages[1].Status = StatusWaiting)

\* a failed build was restarted twice, both restarts committed
C19_Witness ==
    /\ pc[1] = "idle"
    /\ \E i, j \in Calls("restart") :
          /\ NextOnBuild(i, j)
          /\ trail[i].status = StatusFail
          /\ trail[i].before.stages # trail[i].after.stages
          /\ trail[j].status = StatusBuilding
          /\ \E r \in db : r.id = trail[j].id /\ r.stages = trail[j].after.stages

\* the transitions of the stored status of a build
Transitions ==
    { <<StatusBuilding, StatusBuilding>>, <<StatusBuilding, StatusSuccess>>,
      <<StatusBuilding, StatusFail>>, <<StatusBuilding, StatusStopped>>,
      <<StatusSuccess, StatusBuilding>>, <<StatusFail, StatusBuilding>> }

\* C20: a call of UpdatePipelineBuildStatusAndStage, StopPipelineBuild or
\* RestartPipelineBuild changes the stored status of a build only along
\* Building->Building, Building->Success, Building->Fail, Building->Stopped,
\* Success->Building and Fail->Building; RestartPipelineBuild moves no
\* Stopped, Skipped or Disabled build to Building.
C20_StatusTransitions ==
    \A i \in 1..Len(trail) :
        trail[i].op \in LifeOps =>
            \/ trail[i].before.status = trail[i].after.status
            \/ <<trail[i].before.status, trail[i].after.status>> \in Transitions

(***************************************************************************)
(* The stored status and the stored stages.                                *)
(***************************************************************************)
\* the status the stages of a build aggregate to: Fail when a stage has
\* failed, Success when every stage has succeeded, and Building otherwise (a
\* stage is running, or the next stage waits for its turn)
Aggregate(stages) ==
    IF \E i \in 1..Len(stages) : stages[i].Status = StatusFail THEN StatusFail
    ELSE IF \A i \in 1..Len(stages) : stages[i].Status = StatusSuccess THEN StatusSuccess
    ELSE StatusBuilding

C22_DeleteCascade ==
    /\ \A t \in Tx :
          (pc[t] = "failed" /\ loc[t].op = "delete") =>
              LET b == loc[t].pb
                  a == RowByID(Raw(t), b.id)
              IN  /\ loc[t].err = "logs" => a = b
                  /\ loc[t].err = "jobs" => a = [b EXCEPT !.logs = {}]
                  /\ loc[t].err = "row" => a = [b EXCEPT !.logs = {}, !.jobs = {}]
    /\ \A i \in Calls("delete") :
          /\ trail[i].after.status = Gone
          /\ trail[i].after.logs = {}
          /\ trail[i].after.jobs = {}
          /\ trail[i].after.tests = {}

\* C23: after DeleteBranchBuilds(app, branch) returned with no stop or delete
\* step having failed, the store holds no build of the application on the
\* branch.
C23_PurgeLeavesNoBuild ==
    \A i \in Calls("purge") :
        ~trail[i].failed =>
            \A r \in trail[i].after : ~(r.app = AppID /\ r.branch = trail[i].branch)

(***************************************************************************)
(* Concurrent handlers on one build.                                       *)
(***************************************************************************)
\* C24: at any time at most one open transaction holds the lock of a build;
\* a SelectBuildForUpdate call that returned no error holds the lock of a
\* build it found Building; a call on a build whose lock another transaction
\* holds returns an error, holds no lock and does not wait; a call on a build
\* that is not Building or does not exist returns an error and holds no lock.
C24_SelectBuildForUpdateExcludes ==
    /\ \A id \in 1..nextId : Cardinality(LockHolders(id)) <= 1
    /\ \A t \in Tx :
          loc[t].op = "update" =>
              /\ pc[t] \notin {"waitLock", "waitArgs"}
              /\ pc[t] = "update" =>
                    /\ LockHolders(loc[t].target) = {t}
                    /\ loc[t].pb.id = loc[t].target
                    /\ loc[t].pb.status = StatusBuilding
              /\ (pc[t] = "failed" /\ loc[t].err = "locked") =>
                    /\ <<loc[t].target, t>> \notin locks
                    /\ loc[t].holder \in Tx \ {t}
              /\ (pc[t] = "failed" /\ loc[t].err = "norows") =>
                    <<loc[t].target, t>> \notin locks

\* a handler holds the lock of the first build, which it found Building, and
\* the call of another handler on that build has returned an error
C24_Witness ==
    \E t, u \in Tx :
        /\ t # u
        /\ loc[t].op = "update" /\ pc[t] = "update" /\ loc[t].target = 1
        /\ loc[u].op = "update" /\ pc[u] = "failed" /\ loc[u].err = "locked"
        /\ loc[u].target = 1 /\ loc[u].holder = t
        /\ LockHolders(1) = {t}

\* the parameters of that name in a list
Named(params, name) == {n \in 1..Len(params) : params[n].Name = name}

\* C25: the stored parameters of a build hold, for every InsertBuildVariable
\* call on it that committed, the cds.build.<name> entry the call appended
\* (one entry per call) and every parameter the call found, whatever the
\* interleaving of the calls.
C25_NoLostVariable ==
    \A i \in Calls("variable") :
        \A r \in db :
            r.id = trail[i].id =>
                /\ Cardinality(Named(r.args, "cds.build." \o trail[i].name))
                      = Cardinality({j \in Calls("variable") :
                                        /\ trail[j].id = trail[i].id
                                        /\ trail[j].name = trail[i].name})
                /\ \A k \in 1..Len(trail[i].read) :
                      \E n \in 1..Len(r.args) : r.args[n] = trail[i].read[k]

\* two InsertBuildVariable calls on the same build, for x and for y, have
\* committed; the second one had to wait for the lock the first one held
C25_Witness ==
    \E i, j \in Calls("variable") :
        /\ i < j
        /\ trail[i].id = trail[j].id
        /\ trail[i].name # trail[j].name
        /\ trail[j].waited
        /\ \E r \in db : /\ r.id = trail[i].id
                          /\ HasParam(r.args, "cds.build." \o trail[i].name)
                          /\ HasParam(r.args, "cds.build." \o trail[j].name)

(***************************************************************************)
(* The stages of a build and the definition of its pipeline.               *)
(***************************************************************************)
\* C26: no step, an edit of the pipeline definition included, changes the
\* stages read back for a stored build, and no step that writes a build
\* changes the stored pipeline definition.
C26_StagesAreSnapshot ==
    [][ /\ \A r \in db :
              (\E q \in db' : q.id = r.id) =>
                  (LoadPipelineBuildByID(db, r.id).stages)'
                      = LoadPipelineBuildByID(db, r.id).stages
        /\ AllRows' # AllRows => pipelines' = pipelines ]_vars

\* the first pipeline was edited after a build of it was stored: the stages
\* read back for the build are the first stage waiting and the second stage
\* of the first definition, which the stored definition no longer has, and a
\* build created since has the stages of the edited definition
C26_Witness ==
    /\ pipelines[1] # PipelineDefinitions[1]
    /\ \E r \in db :
          /\ LoadPipelineBuildByID(db, r.id).stages # SnapshotStages([ID |-> r.pip])
          /\ Len(LoadPipelineBuildByID(db, r.id).stages) = 2
          /\ LoadPipelineBuildByID(db, r.id).stages[1].Status = StatusWaiting
          /\ LoadPipelineBuildByID(db, r.id).stages[2] = PipelineDefinitions[1][2]
    /\ \E r \in db : r.stages = SnapshotStages([ID |-> r.pip])

(***************************************************************************)
(* The build InsertPipelineBuild returns and the build read back.          *)
(***************************************************************************)
\* InsertPipelineBuild, lines 825-829 and 875-876: the build returned.  Its
\* parameters are params, not argsFinal; Done and Stages are never assigned.
ReturnedBuild(t) ==
    [id |-> loc[t].ID, build_number |-> loc[t].BuildNumber, version |-> loc[t].Version,
     status |-> loc[t].Status,
     branch |-> loc[t].Branch, hash |-> loc[t].Hash, author |-> loc[t].Author,
     done |-> DoneZero, args |-> loc[t].params, stages |-> << >>]

\* the fields of a build read by scanPipelineBuild that the build returned
\* by InsertPipelineBuild is compared on
ComparedFields(pb) ==
    [id |-> pb.id, build_number |-> pb.build_number, version |-> pb.version,
     status |-> pb.status,
     branch |-> pb.branch, hash |-> pb.hash, author |-> pb.author,
     done |-> pb.done, args |-> pb.args, stages |-> pb.stages]

\* C27: the build a successful InsertPipelineBuild returns equals the build
\* LoadPipelineBuildByID reads in the same transaction, in build number,
\* version, status, trigger branch, hash and author, done, parameters and
\* stages.
C27_InsertThenLoadEqual ==
    \A t \in Tx :
        pc[t] = "returned" =>
            ComparedFields(LoadPipelineBuildByID(View(t), loc[t].ID)) = ReturnedBuild(t)

(***************************************************************************)
(* The previous build on the branch and the commits of a build.            *)
(***************************************************************************)
\* the builds of the triple of c, on the branch of c, numbered below n
PreviousCandidates(rows, c, n) ==
    {r \in rows : /\ r.app = c.app /\ r.pip = c.pip /\ r.env = c.env
                  /\ r.branch = c.branch
                  /\ r.build_number < n}

\* the one of a set of builds with the greatest build number
Greatest(rs) == CHOOSE r \in rs : \A o \in rs : o.build_number <= r.build_number

\* C28: for every build number, pipeline and application asked for,
\* CurrentAndPreviousPipelineBuildNumberAndHash returns ErrNoPipelineBuild
\* when the store has no build of that number in the triple; otherwise it
\* returns the build as current and, as previous, the build with the
\* greatest build number below it among the builds of the triple on the
\* branch of the current build, and no previous when there is none.
C28_PreviousOnBranch ==
    \A n \in 0..nextId : \A pip \in {1, 2} : \A app \in {AppID, OtherAppID} :
        LET q == CurrentAndPreviousPipelineBuildNumberAndHash(Live(db), n, pip, app, EnvID)
            current == {r \in Live(db) : /\ r.app = app /\ r.pip = pip /\ r.env = EnvID
                                         /\ r.build_number = n}
        IN  /\ current = {} => q.err = "ErrNoPipelineBuild"
            /\ \A c \in current :
                  /\ q.err = ""
                  /\ q.cur = << BuildNumberAndHash(c) >>
                  /\ PreviousCandidates(Live(db), c, n) = {} => q.prev = << >>
                  /\ PreviousCandidates(Live(db), c, n) # {} =>
                        q.prev = << BuildNumberAndHash(Greatest(PreviousCandidates(Live(db), c, n))) >>

\* the store holds a build whose previous build on the branch is not the
\* build numbered just below it, which is on another branch, and that build
\* in turn has earlier builds in its triple and none on its branch
C28_Witness ==
    \E c \in Live(db) : \E o \in Live(db) :
        /\ o.pip = c.pip /\ o.build_number = c.build_number - 1 /\ o.branch # c.branch
        /\ PreviousCandidates(Live(db), c, c.build_number) # {}
        /\ CurrentAndPreviousPipelineBuildNumberAndHash(Live(db), c.build_number, c.pip, AppID, EnvID).prev
               = << BuildNumberAndHash(Greatest(PreviousCandidates(Live(db), c, c.build_number))) >>
        /\ PreviousCandidates(Live(db), o, o.build_number) = {}
        /\ CurrentAndPreviousPipelineBuildNumberAndHash(Live(db), o.build_number, o.pip, AppID, EnvID).prev = << >>
        /\ CurrentAndPreviousPipelineBuildNumberAndHash(Live(db), nextId, c.pip, AppID, EnvID).err
               = "ErrNoPipelineBuild"

\* the last call of UpdatePipelineBuildCommits by handler t returned no
\* error, for an application with a repository manager
CommitsStored(t) ==
    /\ pc[t] = "done" /\ loc[t].op = "commits" /\ loc[t].rm /\ loc[t].err = ""
    /\ \E r \in Live(db) : r.id = loc[t].target

\* C29: after UpdatePipelineBuildCommits on a build with a hash c that is
\* not empty: with a previous build on the branch of hash p, the stored list
\* is empty and nothing was requested when p = c, and is the answer to the
\* request Commits(branch, p, c) when p is not empty and differs from c; with
\* no previous build it is the answer to Commits(branch, "", c).
C29_CommitListForKnownHash ==
    \A t \in Tx :
        CommitsStored(t) =>
            LET cur == RowByID(db, loc[t].target)
                earlier == PreviousCandidates(Live(db), cur, cur.build_number)
                p == Greatest(earlier).hash
                c == cur.hash
            IN  c # "" =>
                  /\ (earlier # {} /\ p = c) =>
                         cur.commits = << >> /\ loc[t].req = << >>
                  /\ (earlier # {} /\ p # "" /\ p # c) =>
                         /\ loc[t].req = << Request("Commits", cur.branch, p, c) >>
                         /\ cur.commits = ClientCommits(cur.branch, p, c)
                  /\ earlier = {} =>
                         /\ loc[t].req = << Request("Commits", cur.branch, "", c) >>
                         /\ cur.commits = ClientCommits(cur.branch, "", c)

\* a call on a build whose previous build on the branch has another hash:
\* the list stored is the range, which has a commit and is shorter than the
\* list of the commits up to the hash of the build
C29_Witness ==
    \E t \in Tx :
        /\ CommitsStored(t)
        /\ LET cur == RowByID(db, loc[t].target)
                earlier == PreviousCandidates(Live(db), cur, cur.build_number)
            IN  /\ cur.hash # ""
                /\ earlier # {}
                /\ Greatest(earlier).hash \notin {"", cur.hash}
                /\ cur.commits = ClientCommits(cur.branch, Greatest(earlier).hash, cur.hash)
                /\ cur.commits # << >>
                /\ Len(cur.commits) < Len(ClientCommits(cur.branch, "", cur.hash))

\* C30: after UpdatePipelineBuildCommits on a build with an empty hash whose
\* branch the collaborator knows, the stored list is the latest commit of
\* the branch alone, whatever the previous build.
C30_LatestCommitForEmptyHash ==
    \A t \in Tx :
        CommitsStored(t) =>
            LET cur == RowByID(db, loc[t].target)
            IN  (cur.hash = "" /\ ClientBranch(cur.branch) # << >>) =>
                    cur.commits = << ClientCommit(ClientBranch(cur.branch)[1].LatestCommit) >>

(***************************************************************************)
(* The events of a status update and the stages of a restarted build.      *)
(***************************************************************************)
\* C35: a call of UpdatePipelineBuildStatusAndStage, made by the state
\* machine or by RestartPipelineBuild, publishes one event when the status
\* it is given differs from the status of the build it is given, and none
\* when they are equal; the build it was given has the new status on return;
\* RestartPipelineBuild on a Success or Fail build publishes one event.
C35_OneEventPerStatusChange ==
    /\ \A i \in Calls("update") \cup Calls("restart") :
          /\ trail[i].published = IF trail[i].status # trail[i].after.status THEN 1 ELSE 0
          /\ (trail[i].op = "restart" /\ trail[i].status \in {StatusSuccess, StatusFail}) =>
                 trail[i].published = 1
    /\ \A t \in Tx :
          (pc[t] = "done" /\ loc[t].op \in {"update", "restart"}) =>
              /\ loc[t].pb.status = trail[Len(trail)].after.status
              /\ \A w \in pending[t] : w.id = loc[t].pb.id => w.status = loc[t].pb.status

\* an update that kept the status and published nothing, an update that
\* changed it and published one event, and a restart of a build that had
\* succeeded, which published one event
C35_Witness ==
    /\ \E i \in Calls("update") :
          trail[i].status = trail[i].after.status /\ trail[i].published = 0
    /\ \E i \in Calls("update") :
          trail[i].status # trail[i].after.status /\ trail[i].published = 1
    /\ \E i \in Calls("restart") :
          /\ trail[i].status = StatusSuccess
          /\ trail[i].after.status = StatusBuilding
          /\ trail[i].published = 1

\* C36 as stated: after RestartPipelineBuild on a build that had succeeded,
\* no stage of the build has status Success.
C36_NoSuccessStageAfterRestart ==
    \A i \in Calls("restart") :
        trail[i].status = StatusSuccess =>
            \A n \in 1..Len(trail[i].after.stages) :
                trail[i].after.stages[n].Status # StatusSuccess

\* C36 amended: after RestartPipelineBuild on a build that had succeeded,
\* the first stage is Waiting and every later stage has the status it had
\* before the restart, while no stage has a job left.
C36_OnlyFirstStageReset ==
    \A i \in Calls("restart") :
        trail[i].status = StatusSuccess =>
            LET b == trail[i].before
                a == trail[i].after
            IN  /\ Len(a.stages) = Len(b.stages)
                /\ a.stages[1].Status = StatusWaiting
                /\ \A n \in 2..Len(a.stages) :
                      /\ a.stages[n].Status = b.stages[n].Status
                      /\ a.stages[n].Jobs = << >>

\* a build of two stages that had succeeded was restarted: its second
\* stage is still Success and has no job
C36_Witness ==
    \E i \in Calls("restart") :
        /\ trail[i].status = StatusSuccess
        /\ Len(trail[i].after.stages) = 2
        /\ trail[i].before.stages[2].Jobs # << >>
        /\ trail[i].after.stages[1].Status = StatusWaiting
        /\ trail[i].after.stages[2].Status = StatusSuccess
        /\ trail[i].after.stages[2].Jobs = << >>

(***************************************************************************)
(* The health of the process.                                              *)
(***************************************************************************)
\* C31: the process is marked (panicked) only when more than
\* nbPanicsBeforeFail recovered panics fell within one window of 2 minutes.
C31_PanickedOnlyOnBurst == router.panicked => router.burst

(***************************************************************************)
(* The permissions of the routes.                                          *)
(***************************************************************************)
\* the requests served last on the route rc with a handler for the method,
\* sent by an authenticated identity
ServedOn(rc) ==
    {x \in {router.served[i] : i \in 1..Len(router.served)} :
        x.rc = rc /\ x.req.method = "GET" /\ x.req.identity # "none"}

\* C33: on a route registered with NeedHatchery, a request without the
\* identity of a hatchery is answered Forbidden without invoking the
\* handler, and a request of a hatchery invokes the handler.
C33_HatcheryOnly ==
    \A x \in ServedOn(NeedHatchery) :
        IF x.req.identity = "hatchery" THEN x.res.invoked
        ELSE ~x.res.invoked /\ x.res.status = "Forbidden"

\* C34: on a route registered with NeedWorker, a request that
\* checkWorkerPermission refuses is answered Forbidden without invoking
\* the handler, whatever checkPermission answers.
C34_WorkerPermissionDecides ==
    \A x \in ServedOn(NeedWorker) :
        ~x.req.checkWorkerPermission
            => ~x.res.invoked /\ x.res.status = "Forbidden"

(***************************************************************************)
(* The applications.                                                       *)
(***************************************************************************)
\* the keys ("application", project key, "*") that hold a value
ApplicationKeys(c) == {x \in c : x[1] = "application" /\ x[2] = ProjectKey}

\* a transaction writes a status into pipeline_build: a row it inserts, or
\* a row whose status it changes
StatusStored ==
    \E t \in Tx : \E w \in pending'[t] :
        /\ w.status # Gone
        /\ \A r \in Raw(t) : r.id = w.id => r.status # w.status

\* C32: the keys ("application", project key, "*") hold nothing after a step
\* that stores the status of a build (the creation of a build included) and
\* after a step in which a handler has added, deleted, cloned or updated
\* an application.
C32_CacheDeletedOnChange ==
    [][(StatusStored \/ application' # application)
          => ApplicationKeys(cache') = {}]_vars

\* C37: no application is deleted while the store holds a build of it with
\* status Building.
C37_NoDeleteWhileBuilding ==
    [][\A a \in application \ application' :
          (\A b \in application' : b.id # a.id)
             => CountBuildingPipelineByApplication(Live(db), a.id) = 0]_vars

\* C38: LoadUserRecentPipelineBuild returns only builds of the pipelines of
\* the groups of the user: user 1 gets builds of the first pipeline only,
\* user 2 builds of the second pipeline only.
C38_OnlyBuildsOfUserGroups ==
    \A t \in Tx :
        loc[t].op = "recent"
            => \A i \in 1..Len(loc[t].res) :
                  \A r \in Live(db) :
                      r.id = loc[t].res[i] => r.pip = loc[t].req[1]
====
